---- MODULE Spec2Model ----
(***************************************************************************)
(* A model of the cJSONLogger library (src/src/cJSONLogger.c): the global  *)
(* logger state, the two mutexes, the file system the logger writes to,    *)
(* and the six public operations, each split at its mutex operations so    *)
(* that interleavings of several threads are the interleavings of the C    *)
(* code.                                                                   *)
(***************************************************************************)
EXTENDS Integers, Sequences, FiniteSets, TLC

(***************************************************************************)
(* Bounds of the model.                                                    *)
(***************************************************************************)
\* Number of public calls made in one behaviour.
MaxCalls == 4

\* Number of public calls made in one behaviour of two threads.
MaxCallsMT == 3

\* Number of public calls made in one behaviour that initialises and
\* rotates only.
MaxCallsRotate == 9

\* The public calls of a behaviour of one thread that logs under one node
\* until the logger rotates: init, MAX_LOG_COUNT + 1 log calls and a dump.
MaxCallsBurst == 6

\* Number of public calls made in one behaviour that initialises again: init,
\* log, rotate, log, init.
MaxCallsReinit == 5

\* Number of public calls made in one behaviour that destroys the logger
\* and goes on: init, log, destroy, init, log, dump.
MaxCallsLife == 6

\* Number of public calls made in one behaviour that logs long templates:
\* init and four log calls.
MaxCallsLong == 5
MaxCallsExit == 5
MaxCallsParse == 2
MaxCallsHeader == 3
MaxCallsLifeMT == 3
MaxCallsFair == 3
MaxCallsDumpMT == 4

\* The longest template of the calls that exercise the parser.
MaxTemplateLen == 4

\* MAX_LOG_COUNT of the source is 500; the model rotates after this many
\* accepted records so that an implicit rotation is within reach.
MAX_LOG_COUNT == 3

(***************************************************************************)
(* Program constants.                                                      *)
(***************************************************************************)
MAX_LOG_MSG_LEN == 256
MAX_LOG_ROTATION_FILES == 5

LEVEL_START == 0
LEVEL_CRITICAL == 1
LEVEL_ERROR == 2
LEVEL_WARN == 3
LEVEL_INFO == 4
LEVEL_DEBUG == 5
LEVEL_END == 6

\* The digit of the node directive "%1".
JNO_CHAR == "1"

\* The null pointer, for the pointers the model keeps as strings.
NULL == "NULL"

\* The header the CJSON_LOG macros put in front of the user template.
HeaderPrefix ==
    <<"$", "$", "%", "s", "$", "$", "%", "s", "$", "$", "%", "d", "$", "$">>

AllThreads == {1, 2}

(***************************************************************************)
(* The JSON tree.  s_g_rootNode is a heap of nodes in creation order; node *)
(* 1 is the root and <<>> is the NULL pointer.  cJSON keeps the children   *)
(* of a node in the order they were added, which is the order of their     *)
(* indices here.                                                           *)
(***************************************************************************)
CreateObject == [parent |-> 0, name |-> "", kind |-> "object", items |-> <<>>]

CreateArray == [parent |-> 0, name |-> "", kind |-> "array", items |-> <<>>]

Children(tree, n) == {i \in 1..Len(tree) : tree[i].parent = n}

HasObjectItem(tree, n, name) ==
    \E i \in Children(tree, n) : tree[i].name = name

\* The first child with the name, 0 (NULL) when there is none.
GetObjectItem(tree, n, name) ==
    IF HasObjectItem(tree, n, name)
    THEN CHOOSE i \in Children(tree, n) :
            /\ tree[i].name = name
            /\ \A j \in Children(tree, n) : tree[j].name = name => i <= j
    ELSE 0

AddItemToObject(tree, n, name, item) ==
    Append(tree, [item EXCEPT !.parent = n, !.name = name])

AddItemToArray(tree, arr, rec) ==
    [tree EXCEPT ![arr].items = Append(@, rec)]

\* The names on the way from the root to node n.
RECURSIVE PathOf(_, _)
PathOf(tree, n) ==
    IF n = 0 \/ tree[n].parent = 0 THEN <<>>
    ELSE Append(PathOf(tree, tree[n].parent), tree[n].name)

\* The set S of node indices as the sequence of its members in rising order.
RECURSIVE InOrder(_)
InOrder(S) ==
    IF S = {} THEN <<>>
    ELSE LET m == CHOOSE i \in S : \A j \in S : i <= j
         IN <<m>> \o InOrder(S \ {m})

(***************************************************************************)
(* cJSON_Print: the document in document order.  Every object and array    *)
(* of the tree is one entry, a parent before its children and the children *)
(* in the order they were added; an entry has the keys that lead to it and,*)
(* for an array, its records.  NULL prints as NULL (the empty sequence).   *)
(***************************************************************************)
RECURSIVE PrintNode(_, _, _)
RECURSIVE PrintChildren(_, _, _)
PrintNode(tree, n, path) ==
    <<[path |-> path, kind |-> tree[n].kind, items |-> tree[n].items]>>
        \o PrintChildren(tree, InOrder(Children(tree, n)), path)

PrintChildren(tree, kids, path) ==
    IF kids = <<>> THEN <<>>
    ELSE PrintNode(tree, Head(kids), Append(path, tree[Head(kids)].name))
            \o PrintChildren(tree, Tail(kids), path)

cJSON_Print(tree) == IF tree = <<>> THEN <<>> ELSE PrintNode(tree, 1, <<>>)

\* What cJSON_Print gives for a root without children: "{}".
EmptyObjectText == <<[path |-> <<>>, kind |-> "object", items |-> <<>>]>>

(***************************************************************************)
(* Severity levels.                                                        *)
(***************************************************************************)
cJSONLoggerGetLogLevelStr(logLevel) ==
    CASE logLevel = LEVEL_CRITICAL -> "CRITICAL"
      [] logLevel = LEVEL_ERROR -> "ERROR"
      [] logLevel = LEVEL_WARN -> "WARN"
      [] logLevel = LEVEL_INFO -> "INFO"
      [] logLevel = LEVEL_DEBUG -> "DEBUG"
      [] OTHER -> "UNKNOWN"

\* The condition of the early return of cJSONLoggerLog: the call is dropped.
LogLevelFiltered(logLevel, threshold) ==
    logLevel > LEVEL_START /\ logLevel > threshold /\ logLevel < LEVEL_END

\* A variant of the test that has no upper limit.
SetLogLevelAcceptsMutant(logLevel) == logLevel > LEVEL_START

\* The condition under which cJSONLoggerSetLogLevel stores the level.
SetLogLevelAccepts(logLevel) ==
    logLevel > LEVEL_START /\ logLevel < LEVEL_END

(***************************************************************************)
(* The template parser of cJSONLoggerLog.                                  *)
(***************************************************************************)
IsPrefix(p, s) == Len(p) <= Len(s) /\ SubSeq(s, 1, Len(p)) = p

Drop(s, n) == SubSeq(s, n + 1, Len(s))

\* The position of the first '%' of s, 0 when s has none.
FirstPercent(s) ==
    IF \E i \in 1..Len(s) : s[i] = "%"
    THEN CHOOSE i \in 1..Len(s) :
            s[i] = "%" /\ \A j \in 1..(i - 1) : s[j] # "%"
    ELSE 0

\* A parser that, behind a pair that is no directive, takes a following
\* '1' for the digit of a directive.
ScanFragmentMutant(fmt, buf) ==
    LET p == FirstPercent(fmt)
        lit == SubSeq(fmt, 1, p - 1)
        rest == Drop(fmt, p - 1)
    IN IF p = 0 THEN [kind |-> "end", buf |-> buf \o fmt, fmt |-> <<>>]
       ELSE IF Len(rest) = 1
            THEN [kind |-> "past", buf |-> buf \o lit \o <<"%">>,
                  fmt |-> <<>>]
            ELSE IF rest[2] = JNO_CHAR
                 THEN [kind |-> "node", buf |-> buf \o lit,
                       fmt |-> Drop(rest, 2)]
                 ELSE IF Len(rest) >= 3 /\ rest[3] = JNO_CHAR
                      THEN [kind |-> "node",
                            buf |-> buf \o lit \o <<"%", rest[2]>>,
                            fmt |-> Drop(rest, 3)]
                      ELSE [kind |-> "end", buf |-> buf \o fmt, fmt |-> <<>>]

\* One run of the while loop, from the current position to the next node
\* directive or to the end of the template.  fmt is what is left of the
\* template, buf is logMsgFmt.  kind "node": a "%1" was read and fmt is
\* what follows it; kind "end": the terminating NUL was read; kind "past":
\* the template ended in '%', the default case copied the NUL and moved fmt
\* past it.
\* The bytes before the first '%' are copied one by one (line 478).
RECURSIVE ScanFragment(_, _)
ScanFragment(fmt, buf) ==
    LET p == FirstPercent(fmt)
        lit == SubSeq(fmt, 1, p - 1)
        rest == Drop(fmt, p - 1)
    IN IF p = 0 THEN [kind |-> "end", buf |-> buf \o fmt, fmt |-> <<>>]
       ELSE IF Len(rest) = 1
            THEN [kind |-> "past", buf |-> buf \o lit \o <<"%">>,
                  fmt |-> <<>>]
            ELSE IF rest[2] = JNO_CHAR
                 THEN [kind |-> "node", buf |-> buf \o lit,
                       fmt |-> Drop(rest, 2)]
                 ELSE ScanFragment(Drop(rest, 2),
                                   buf \o lit \o <<"%", rest[2]>>)

\* The output of the format logMsgFmt: "%%" prints one '%', "%s" prints the
\* next argument, any other byte prints itself.
RECURSIVE FormatMsg(_, _)
FormatMsg(buf, args) ==
    LET p == FirstPercent(buf)
        lit == SubSeq(buf, 1, p - 1)
        rest == Drop(buf, p - 1)
    IN IF p = 0 THEN buf
       ELSE IF Len(rest) = 1 THEN buf
       ELSE IF rest[2] = "%"
            THEN lit \o <<"%">> \o FormatMsg(Drop(rest, 2), args)
       ELSE IF rest[2] = "s" /\ args # <<>>
            THEN lit \o <<Head(args)>> \o FormatMsg(Drop(rest, 2), Tail(args))
       ELSE lit \o <<"%", rest[2]>> \o FormatMsg(Drop(rest, 2), args)

\* vsnprintf(str, size, format, ap): of the output of the format at most
\* size - 1 bytes are written, followed by the NUL.
Vsnprintf(size, buf, args) ==
    LET out == FormatMsg(buf, args)
    IN IF Len(out) > size - 1 THEN SubSeq(out, 1, size - 1) ELSE out

\* The record cJSONLoggerPushLog builds.  A key the code does not add has
\* the value NULL here.
MakeLog(logInfo, logMsg) ==
    [Time |-> logInfo.timeStamp,
     LogLevel |-> cJSONLoggerGetLogLevelStr(logInfo.logLevel),
     FileName |-> logInfo.fileName,
     FuncName |-> logInfo.funcName,
     FileLine |-> IF logInfo.fileLine # "0" THEN logInfo.fileLine ELSE NULL,
     Log |-> logMsg]

\* A variant that puts the record at the front of the array.
PushLogTreeMutant(tree, node, rec) ==
    LET withLogs == IF HasObjectItem(tree, node, "logs") THEN tree
                    ELSE AddItemToObject(tree, node, "logs", CreateArray)
        logs == GetObjectItem(withLogs, node, "logs")
    IN [withLogs EXCEPT ![logs].items = <<rec>> \o @]

\* Lines 271-296 of cJSONLoggerPushLog: the record goes to the end of the
\* "logs" array of the node, which is created when the node has none.
PushLogTree(tree, node, rec) ==
    LET withLogs == IF HasObjectItem(tree, node, "logs") THEN tree
                    ELSE AddItemToObject(tree, node, "logs", CreateArray)
        logs == GetObjectItem(withLogs, node, "logs")
    IN AddItemToArray(withLogs, logs, rec)

(***************************************************************************)
(* Files.  A file name is the primary path, or the primary path behind a   *)
(* time stamp ("<time>_<path>", time 0 standing for no prefix).  The       *)
(* content of a file is what was printed to it, <<>> when it is empty.     *)
(***************************************************************************)
PrimaryFile(path) == [time |-> 0, path |-> path]

RotatedFile(timeStr, path) == [time |-> timeStr, path |-> path]

NoFile == [time |-> 0, path |-> NULL]

\* fopen(name, "w"): the file exists and is empty.
OpenForWrite(fs, name) ==
    [f \in DOMAIN fs \cup {name} |-> IF f = name THEN <<>> ELSE fs[f]]

\* fprintf(file, "%s", string) and fclose(file) on a stream opened by
\* OpenForWrite: the string is written from the start of the file, over
\* what the file holds by then.
WriteFile(fs, name, string) ==
    [f \in DOMAIN fs \cup {name} |->
        IF f # name THEN fs[f]
        ELSE IF f \in DOMAIN fs
             THEN string \o SubSeq(fs[f], Len(string) + 1, Len(fs[f]))
             ELSE string]

\* remove(name).
RemoveFile(fs, name) == [f \in DOMAIN fs \ {name} |-> fs[f]]

(***************************************************************************)
(* The rotated-file registry (Queue_s).                                    *)
(***************************************************************************)
Slots == 0..(MAX_LOG_ROTATION_FILES - 1)

\* s_g_rotatedFilesQueue = NULL.
NullQueue ==
    [alloc |-> FALSE, rotatedFiles |-> [i \in Slots |-> NoFile],
     head |-> 0, tail |-> 0, currentSize |-> 0]

\* calloc(1, sizeof(Queue_s)).
CallocQueue == [NullQueue EXCEPT !.alloc = TRUE]

(***************************************************************************)
(* Inputs of the calls.                                                    *)
(***************************************************************************)
\* The values of CJSON_LOG_LEVEL_E, the two sentinels included.
Levels == LEVEL_START..LEVEL_END

InitLevels == {LEVEL_INFO}

SetLevels == {LEVEL_START, LEVEL_DEBUG, LEVEL_END}

FilePaths == {"log.json"}

\* The arguments __FILENAME__, __FUNCTION__ and __LINE__ of the macros.
HeaderArgs == <<"test.c", "main", "7">>

\* The calls of cJSONLoggerLog: a level, a template and the variadic
\* arguments of the template.
LogCalls ==
    { [logLevel |-> LEVEL_CRITICAL, fmt |-> <<"x">>, args |-> <<>>],
      [logLevel |-> LEVEL_INFO, fmt |-> <<"%", "1", "x">>, args |-> <<"a">>],
      [logLevel |-> LEVEL_DEBUG, fmt |-> <<"%", "1", "x">>, args |-> <<"a">>],
      [logLevel |-> LEVEL_CRITICAL, fmt |-> <<"x", "%", "1", "y">>,
       args |-> <<"a">>],
      [logLevel |-> LEVEL_INFO, fmt |-> HeaderPrefix \o <<"%", "1", "%", "%">>,
       args |-> HeaderArgs \o <<"b">>],
      [logLevel |-> LEVEL_START, fmt |-> <<"%", "1", "x">>, args |-> <<"a">>],
      [logLevel |-> LEVEL_END, fmt |-> <<"x">>, args |-> <<>>] }

\* The call of cJSONLoggerLog that one thread repeats: CJSON_LOG_INFO with
\* one node, "x".
LogCallsBurst ==
    { [logLevel |-> LEVEL_INFO, fmt |-> HeaderPrefix \o <<"%", "1", "b">>,
       args |-> HeaderArgs \o <<"x">>] }

\* The calls of cJSONLoggerInit of a program that initialises the logger
\* more than once: two valid levels with a path each, and a level outside
\* the range.
InitCallsReinit ==
    { [logLevel |-> LEVEL_INFO, filePath |-> "log.json"],
      [logLevel |-> LEVEL_DEBUG, filePath |-> "b.json"],
      [logLevel |-> LEVEL_END, filePath |-> "b.json"] }

\* Calls of cJSONLoggerLog with every template of up to MaxTemplateLen
\* bytes over a literal, '%' and the digit of the node directive, and
\* enough arguments for the directives.
TemplateBytes == {"x", "%", JNO_CHAR}

LogCallsParse ==
    { [logLevel |-> LEVEL_INFO, fmt |-> f, args |-> <<"a", "b", "c">>] :
        f \in UNION {[1..n -> TemplateBytes] : n \in 1..MaxTemplateLen} }

\* Calls of cJSONLoggerLog with and without the header of the macros: the
\* call CJSON_LOG_INFO("%1b%s", "x", "v") makes, the same template without
\* the header, and calls that write the header themselves, with line 0 and
\* with no file name.
LogCallsHeader ==
    { [logLevel |-> LEVEL_INFO,
       fmt |-> HeaderPrefix \o <<"%", "1", "b", "%", "s">>,
       args |-> HeaderArgs \o <<"x", "v">>],
      [logLevel |-> LEVEL_INFO, fmt |-> <<"%", "1", "b", "%", "s">>,
       args |-> <<"x", "v">>],
      [logLevel |-> LEVEL_INFO, fmt |-> HeaderPrefix \o <<"m">>,
       args |-> <<"test.c", "main", "0">>],
      [logLevel |-> LEVEL_INFO, fmt |-> HeaderPrefix \o <<"m">>,
       args |-> <<NULL, "main", "7">>] }

\* A template of n bytes without directives.
LongTemplate(n) == [i \in 1..n |-> "x"]

\* Calls of cJSONLoggerLog with templates of MAX_LOG_MSG_LEN and of
\* MAX_LOG_MSG_LEN - 1 bytes.
LogCallsLong ==
    { [logLevel |-> LEVEL_INFO, fmt |-> LongTemplate(MAX_LOG_MSG_LEN),
       args |-> <<>>],
      [logLevel |-> LEVEL_INFO,
       fmt |-> <<"%", "1">> \o LongTemplate(MAX_LOG_MSG_LEN - 2),
       args |-> <<"a">>],
      [logLevel |-> LEVEL_INFO, fmt |-> LongTemplate(MAX_LOG_MSG_LEN - 1),
       args |-> <<>>] }

\* The calls of cJSONLoggerInit that two threads make: two levels with a
\* path each.
InitCallsMT ==
    { [logLevel |-> LEVEL_INFO, filePath |-> "log.json"],
      [logLevel |-> LEVEL_DEBUG, filePath |-> "b.json"] }

\* The call of cJSONLoggerLog that threads make next to calls of every other
\* function: one record under one node.
LogCallsFair ==
    { [logLevel |-> LEVEL_INFO, fmt |-> <<"%", "1", "x">>, args |-> <<"a">>] }

\* The call of cJSONLoggerLog that threads make next to dumps: one record at
\* the root.
LogCallsDumpMT ==
    { [logLevel |-> LEVEL_CRITICAL, fmt |-> <<"x">>, args |-> <<>>] }

\* The calls of cJSONLoggerLog that two threads make.
LogCallsMT ==
    { [logLevel |-> LEVEL_CRITICAL, fmt |-> <<"x">>, args |-> <<>>],
      [logLevel |-> LEVEL_INFO,
       fmt |-> <<"x", "%", "1", "y", "%", "1", "z">>, args |-> <<"a", "b">>] }

(***************************************************************************)
(* State.                                                                  *)
(***************************************************************************)
VARIABLES
    s_g_rootNode,           \* the tree, <<>> for NULL
    s_g_filePath,           \* the primary path, or NULL
    s_g_logLevel,           \* the threshold
    s_g_logCount,           \* records accepted since the last rotation
    s_g_rotatedFilesQueue,  \* the registry of rotated files
    s_g_rootNodeMutex,      \* the thread that holds the mutex, 0 for none
    s_g_cLoggerMutex,       \* the thread that holds the mutex, 0 for none
    files,                  \* the files on disk: name -> content
    clock,                  \* CLOCK_REALTIME
    status,                 \* "running", "exiting" (exit runs the handlers),
                            \* "exited", "aborted" (assert), "crashed"
    build,                  \* "debug", "release" or "dist"
    threads,                \* the threads of the process
    atexit,                 \* the handlers registered with atexit, and how
                            \* many of them exit has run
    pc,                     \* where each thread is
    stack,                  \* the labels each thread returns to
    loc,                    \* the arguments and locals of each thread
    ncalls,                 \* public calls the behaviour may still make
    accepted,               \* history: the records handed to PushLog since
                            \* the root was created
    snap,                   \* history: the state at the last public call
    nrot,                   \* history: the times rotate replaced that root,
                            \* inside a log call and called by the user
    life                    \* history: the lifecycle state of the logger

globals ==
    <<s_g_rootNode, s_g_filePath, s_g_logLevel, s_g_logCount,
      s_g_rotatedFilesQueue>>

mutexes == <<s_g_rootNodeMutex, s_g_cLoggerMutex>>

process == <<status, build, threads, atexit>>

history == <<accepted, snap, nrot, life>>

vars ==
    <<s_g_rootNode, s_g_filePath, s_g_logLevel, s_g_logCount,
      s_g_rotatedFilesQueue, s_g_rootNodeMutex, s_g_cLoggerMutex, files,
      clock, status, build, threads, atexit, pc, stack, loc, ncalls,
      accepted, snap, nrot, life>>

Builds == {"debug", "release", "dist"}

NoLoc ==
    [op |-> "none", logLevel |-> LEVEL_START, filePath |-> NULL,
     call |-> [fmt |-> <<>>, args |-> <<>>],
     fmt |-> <<>>, args |-> <<>>, node |-> 0, stale |-> FALSE, nodeName |-> NULL,
     found |-> FALSE,
     logInfo |-> [timeStamp |-> 0, logLevel |-> LEVEL_START,
                  fileName |-> NULL, funcName |-> NULL, fileLine |-> "0"],
     logMsgFmt |-> <<>>, logMsg |-> <<>>, segs |-> <<>>,
     timeStr |-> 0, string |-> <<>>, file |-> NoFile]

\* No rotation has replaced the root; at is the number of records that had
\* been handed to PushLog when rotate last replaced the root.
NoRot == [byLog |-> 0, byCall |-> 0, at |-> 0]

NoSnap == [rootNode |-> <<>>, filePath |-> NULL, files |-> <<>>]

\* The static initialisers of the globals; nothing is on disk.
InitState ==
    /\ s_g_rootNode = <<>>
    /\ s_g_filePath = NULL
    /\ s_g_logLevel = LEVEL_START
    /\ s_g_logCount = 0
    /\ s_g_rotatedFilesQueue = NullQueue
    /\ s_g_rootNodeMutex = 0
    /\ s_g_cLoggerMutex = 0
    /\ files = <<>>
    /\ clock = 1
    /\ status = "running"
    /\ build \in Builds
    /\ atexit = [registered |-> 0, ran |-> 0]
    /\ pc = [t \in AllThreads |-> "idle"]
    /\ stack = [t \in AllThreads |-> <<>>]
    /\ loc = [t \in AllThreads |-> NoLoc]
    /\ accepted = <<>>
    /\ snap = NoSnap
    /\ nrot = NoRot
    /\ life = "Uninitialized"

\* One thread calls the library.
Init == InitState /\ threads = {1} /\ ncalls = MaxCalls

\* One thread calls the library, to initialise and to rotate.
InitRotate == InitState /\ threads = {1} /\ ncalls = MaxCallsRotate

\* One thread calls the library, to initialise, to log under one node and
\* to dump.
InitBurst == InitState /\ threads = {1} /\ ncalls = MaxCallsBurst

\* One thread calls the library, to initialise more than once, to log and
\* to rotate.
InitReinit == InitState /\ threads = {1} /\ ncalls = MaxCallsReinit

\* One thread calls the library, to initialise, to log, to dump and to
\* destroy.
InitLife == InitState /\ threads = {1} /\ ncalls = MaxCallsLife

\* One thread calls the library, to initialise and to log long templates.
InitLong == InitState /\ threads = {1} /\ ncalls = MaxCallsLong

\* One thread calls the library, to initialise and to log, and the process
\* exits.
InitExit == InitState /\ threads = {1} /\ ncalls = MaxCallsExit

\* One thread calls the library, to initialise and to log templates of
\* every shape.
InitParse == InitState /\ threads = {1} /\ ncalls = MaxCallsParse

\* One thread calls the library, to initialise and to log with and without
\* the header of the macros.
InitHeader == InitState /\ threads = {1} /\ ncalls = MaxCallsHeader

\* Two threads call the library, to initialise, to dump and to destroy.
InitLifeMT == InitState /\ threads = AllThreads /\ ncalls = MaxCallsLifeMT

\* Two threads call every function of the library.
InitFair == InitState /\ threads = AllThreads /\ ncalls = MaxCallsFair

\* Two threads initialise the logger, log and dump.
InitDumpMT == InitState /\ threads = AllThreads /\ ncalls = MaxCallsDumpMT

\* Two threads call the library.
InitMT == InitState /\ threads = AllThreads /\ ncalls = MaxCallsMT

(***************************************************************************)
(* Control.                                                                *)
(***************************************************************************)
Running(t) == status \in {"running", "exiting"} /\ t \in threads

Goto(t, label) == pc' = [pc EXCEPT ![t] = label] /\ UNCHANGED stack

\* Enter a function that returns to label.
Call(t, label, return) ==
    /\ pc' = [pc EXCEPT ![t] = label]
    /\ stack' = [stack EXCEPT ![t] = <<return>> \o @]

\* Return from a function, l being the locals at that moment: to the caller
\* inside the library, or to the user, and then the arguments and locals of
\* the call are gone.
Return(t, l) ==
    IF stack[t] = <<>>
    THEN /\ pc' = [pc EXCEPT ![t] = "idle"]
         /\ loc' = [l EXCEPT ![t] = [NoLoc EXCEPT !.op = l[t].op]]
         /\ UNCHANGED stack
    ELSE /\ pc' = [pc EXCEPT ![t] = Head(stack[t])]
         /\ stack' = [stack EXCEPT ![t] = Tail(@)]
         /\ loc' = l

\* The state a history variable keeps of the moment of a public call.
TakeSnap ==
    snap' = IF threads = {1}
            THEN [rootNode |-> s_g_rootNode, filePath |-> s_g_filePath,
                  files |-> files]
            ELSE snap

\* The process dies in a step of thread t: at an assertion ("aborted") or
\* at a bad memory access ("crashed").
Die(t, how) ==
    /\ status' = how
    /\ pc' = [pc EXCEPT ![t] = "dead"]
    /\ UNCHANGED stack

\* A public call starts.
Enter(t) ==
    /\ status = "running"
    /\ t \in threads
    /\ pc[t] = "idle"
    /\ ncalls > 0
    /\ ncalls' = ncalls - 1
    /\ TakeSnap

\* pthread_mutex_lock: the labels at which a thread waits for a mutex, and
\* where it goes on once it holds it.
RootLockLabels ==
    {"init_lock_root", "destroy_lock_root", "log_lock_root", "push_lock_root",
     "dump_lock_root", "rotate_lock_root"}

CfgLockLabels ==
    {"set_lock_cfg", "init_lock_cfg", "destroy_lock_cfg", "log_lock_cfg",
     "push_lock_cfg", "dump_lock_cfg", "rotate_lock_cfg"}

AfterLock(label) ==
    CASE label = "init_lock_root" -> "init_root"
      [] label = "destroy_lock_root" -> "destroy_root"
      [] label = "log_lock_root" -> "log_root"
      [] label = "push_lock_root" -> "push_append"
      [] label = "dump_lock_root" -> "dump_print"
      [] label = "rotate_lock_root" -> "rotate_root"
      [] label = "set_lock_cfg" -> "set_level"
      [] label = "init_lock_cfg" -> "init_path"
      [] label = "destroy_lock_cfg" -> "destroy_cfg"
      [] label = "log_lock_cfg" -> "log_filter"
      [] label = "push_lock_cfg" -> "push_count"
      [] label = "dump_lock_cfg" -> "dump_open"
      [] label = "rotate_lock_cfg" -> "rotate_cfg"

\* pthread_mutex_lock(&s_g_rootNodeMutex)
LockRootNodeMutex(t) ==
    /\ Running(t)
    /\ pc[t] \in RootLockLabels
    /\ s_g_rootNodeMutex = 0
    /\ s_g_rootNodeMutex' = t
    /\ Goto(t, AfterLock(pc[t]))
    /\ UNCHANGED <<globals, s_g_cLoggerMutex, files, clock, process, loc,
                   ncalls, history>>

\* A lock of s_g_cLoggerMutex that lets the thread through without taking
\* the mutex.
LockCLoggerMutexMutant(t) ==
    /\ Running(t)
    /\ pc[t] \in CfgLockLabels
    /\ Goto(t, AfterLock(pc[t]))
    /\ UNCHANGED <<globals, mutexes, files, clock, process, loc, ncalls,
                   history>>

\* pthread_mutex_lock(&s_g_cLoggerMutex)
LockCLoggerMutex(t) ==
    /\ Running(t)
    /\ pc[t] \in CfgLockLabels
    /\ s_g_cLoggerMutex = 0
    /\ s_g_cLoggerMutex' = t
    /\ Goto(t, AfterLock(pc[t]))
    /\ UNCHANGED <<globals, s_g_rootNodeMutex, files, clock, process, loc,
                   ncalls, history>>

\* cJSON_Delete(s_g_rootNode): every node pointer a thread still holds is
\* dangling from now on.
Dangle(l) == [u \in AllThreads |->
                IF l[u].node # 0 /\ pc[u] # "idle"
                THEN [l[u] EXCEPT !.stale = TRUE] ELSE l[u]]

(***************************************************************************)
(* cJSONLoggerSetLogLevel                                                  *)
(***************************************************************************)
CallSetLogLevel(t, logLevel) ==
    /\ Enter(t)
    /\ loc' = [loc EXCEPT ![t] = [NoLoc EXCEPT !.op = "set",
                                               !.logLevel = logLevel]]
    /\ Goto(t, "set_lock_cfg")
    /\ UNCHANGED <<globals, mutexes, files, clock, process, accepted, nrot, life>>

\* Lines 594-597, with s_g_cLoggerMutex held.
SetLogLevelBody(t) ==
    /\ Running(t)
    /\ pc[t] = "set_level"
    /\ s_g_logLevel' = IF SetLogLevelAccepts(loc[t].logLevel)
                       THEN loc[t].logLevel ELSE s_g_logLevel
    /\ s_g_cLoggerMutex' = 0
    /\ Return(t, loc)
    /\ UNCHANGED <<s_g_rootNode, s_g_filePath, s_g_logCount,
                   s_g_rotatedFilesQueue, s_g_rootNodeMutex, files, clock,
                   process, ncalls, history>>

(***************************************************************************)
(* cJSONLoggerInit                                                         *)
(***************************************************************************)
CallInit(t, logLevel, filePath) ==
    /\ Enter(t)
    /\ loc' = [loc EXCEPT ![t] = [NoLoc EXCEPT !.op = "init",
                                               !.logLevel = logLevel,
                                               !.filePath = filePath]]
    /\ Goto(t, "init_lock_root")
    /\ UNCHANGED <<globals, mutexes, files, clock, process, accepted, nrot, life>>

\* An init that always starts with a new root.
InitRootMutant(t) ==
    /\ Running(t)
    /\ pc[t] = "init_root"
    /\ s_g_rootNode' = <<CreateObject>>
    /\ accepted' = <<>>
    /\ nrot' = NoRot
    /\ s_g_rootNodeMutex' = 0
    /\ Call(t, "set_lock_cfg", "init_lock_cfg")
    /\ UNCHANGED <<s_g_filePath, s_g_logLevel, s_g_logCount,
                   s_g_rotatedFilesQueue, s_g_cLoggerMutex, files, clock,
                   process, loc, ncalls, snap, life>>

\* Lines 339-345, with s_g_rootNodeMutex held: the root is created when
\* there is none, then cJSONLoggerSetLogLevel is called.
InitRoot(t) ==
    /\ Running(t)
    /\ pc[t] = "init_root"
    /\ IF s_g_rootNode = <<>>
       THEN /\ s_g_rootNode' = <<CreateObject>>
            /\ accepted' = <<>>
            /\ nrot' = NoRot
       ELSE UNCHANGED <<s_g_rootNode, accepted, nrot>>
    /\ s_g_rootNodeMutex' = 0
    /\ Call(t, "set_lock_cfg", "init_lock_cfg")
    /\ UNCHANGED <<s_g_filePath, s_g_logLevel, s_g_logCount,
                   s_g_rotatedFilesQueue, s_g_cLoggerMutex, files, clock,
                   process, loc, ncalls, snap, life>>

\* Lines 348-358, with s_g_cLoggerMutex held.
InitPath(t) ==
    /\ Running(t)
    /\ pc[t] = "init_path"
    /\ s_g_filePath' = loc[t].filePath
    /\ s_g_cLoggerMutex' = 0
    /\ atexit' = [atexit EXCEPT !.registered = @ + 1]
    /\ Return(t, loc)
    /\ life' = "Active"
    /\ UNCHANGED <<s_g_rootNode, s_g_logLevel, s_g_logCount,
                   s_g_rotatedFilesQueue, s_g_rootNodeMutex, files, clock,
                   status, build, threads, ncalls, accepted, snap, nrot>>

(***************************************************************************)
(* cJSONLoggerDump                                                         *)
(***************************************************************************)
CallDump(t) ==
    /\ Enter(t)
    /\ loc' = [loc EXCEPT ![t] = [NoLoc EXCEPT !.op = "dump"]]
    /\ Goto(t, "dump_lock_root")
    /\ UNCHANGED <<globals, mutexes, files, clock, process, accepted, nrot, life>>

\* A dump that returns, when there is no tree, with s_g_rootNodeMutex held.
DumpPrintMutant(t) ==
    /\ Running(t)
    /\ pc[t] = "dump_print"
    /\ IF cJSON_Print(s_g_rootNode) = <<>>
       THEN /\ Return(t, loc)
            /\ UNCHANGED s_g_rootNodeMutex
       ELSE /\ loc' = [loc EXCEPT ![t].string = cJSON_Print(s_g_rootNode)]
            /\ s_g_rootNodeMutex' = 0
            /\ Goto(t, "dump_lock_cfg")
    /\ UNCHANGED <<globals, s_g_cLoggerMutex, files, clock, process, ncalls,
                   history>>

\* Lines 497-502, with s_g_rootNodeMutex held.
DumpPrint(t) ==
    /\ Running(t)
    /\ pc[t] = "dump_print"
    /\ s_g_rootNodeMutex' = 0
    /\ IF cJSON_Print(s_g_rootNode) = <<>>
       THEN Return(t, loc)
       ELSE /\ loc' = [loc EXCEPT ![t].string = cJSON_Print(s_g_rootNode)]
            /\ Goto(t, "dump_lock_cfg")
    /\ UNCHANGED <<globals, s_g_cLoggerMutex, files, clock, process, ncalls,
                   history>>

\* Lines 505-507, with s_g_cLoggerMutex held.  fopen(NULL, "w") returns
\* NULL: the debug build stops at the assertion, the other builds go on to
\* fprintf on a NULL stream.
DumpOpen(t) ==
    /\ Running(t)
    /\ pc[t] = "dump_open"
    /\ IF s_g_filePath = NULL
       THEN /\ Die(t, IF build = "debug" THEN "aborted" ELSE "crashed")
            /\ UNCHANGED <<files, loc, s_g_cLoggerMutex>>
       ELSE /\ files' = OpenForWrite(files, PrimaryFile(s_g_filePath))
            /\ loc' = [loc EXCEPT ![t].file = PrimaryFile(s_g_filePath)]
            /\ s_g_cLoggerMutex' = 0
            /\ Goto(t, "dump_write")
            /\ UNCHANGED status
    /\ UNCHANGED <<globals, s_g_rootNodeMutex, clock, build, threads, atexit, ncalls,
                   history>>

\* A variant of the last step of dump that closes the file unwritten.
DumpWriteMutant(t) ==
    /\ Running(t)
    /\ pc[t] = "dump_write"
    /\ Return(t, loc)
    /\ UNCHANGED <<globals, mutexes, files, clock, process, ncalls, history>>

\* Lines 509-512.
DumpWrite(t) ==
    /\ Running(t)
    /\ pc[t] = "dump_write"
    /\ files' = WriteFile(files, loc[t].file, loc[t].string)
    /\ Return(t, loc)
    /\ UNCHANGED <<globals, mutexes, clock, process, ncalls, history>>

(***************************************************************************)
(* cJSONLoggerDestroy                                                      *)
(***************************************************************************)
\* A variant of destroy that does not dump first.
CallDestroyMutant(t) ==
    /\ Enter(t)
    /\ loc' = [loc EXCEPT ![t] = [NoLoc EXCEPT !.op = "destroy"]]
    /\ Goto(t, "destroy_lock_root")
    /\ UNCHANGED <<globals, mutexes, files, clock, process, accepted, nrot, life>>

\* Line 363: destroy starts with a call of cJSONLoggerDump.
CallDestroy(t) ==
    /\ Enter(t)
    /\ loc' = [loc EXCEPT ![t] = [NoLoc EXCEPT !.op = "destroy"]]
    /\ Call(t, "dump_lock_root", "destroy_lock_root")
    /\ UNCHANGED <<globals, mutexes, files, clock, process, accepted, nrot, life>>

\* A variant that leaves the root as it is.
DestroyRootMutant(t) ==
    /\ Running(t)
    /\ pc[t] = "destroy_root"
    /\ s_g_rootNodeMutex' = 0
    /\ Goto(t, "destroy_lock_cfg")
    /\ UNCHANGED <<globals, s_g_cLoggerMutex, files, clock, process, loc,
                   ncalls, history>>

\* Lines 366-370, with s_g_rootNodeMutex held.
DestroyRoot(t) ==
    /\ Running(t)
    /\ pc[t] = "destroy_root"
    /\ s_g_rootNode' = <<>>
    /\ loc' = IF s_g_rootNode # <<>> THEN Dangle(loc) ELSE loc
    /\ s_g_rootNodeMutex' = 0
    /\ Goto(t, "destroy_lock_cfg")
    /\ UNCHANGED <<s_g_filePath, s_g_logLevel, s_g_logCount,
                   s_g_rotatedFilesQueue, s_g_cLoggerMutex, files, clock,
                   process, ncalls, history>>

\* A counter test that rotates one record early.
PushCountMutant(t) ==
    /\ Running(t)
    /\ pc[t] = "push_count"
    /\ s_g_logCount' = s_g_logCount + 1
    /\ s_g_cLoggerMutex' = 0
    /\ IF s_g_logCount + 1 >= MAX_LOG_COUNT
       THEN /\ loc' = [loc EXCEPT ![t].timeStr = clock]
            /\ clock' = clock + 1
            /\ Goto(t, "rotate_lock_cfg")
       ELSE /\ Return(t, loc)
            /\ UNCHANGED clock
    /\ UNCHANGED <<s_g_rootNode, s_g_filePath, s_g_logLevel,
                   s_g_rotatedFilesQueue, s_g_rootNodeMutex, files, process,
                   ncalls, history>>

\* A destroy that leaves the counter as it is.
DestroyConfigMutant(t) ==
    /\ Running(t)
    /\ pc[t] = "destroy_cfg"
    /\ s_g_filePath' = NULL
    /\ s_g_rotatedFilesQueue' = NullQueue
    /\ s_g_logLevel' = LEVEL_START
    /\ s_g_cLoggerMutex' = 0
    /\ Return(t, loc)
    /\ life' = "Destroyed"
    /\ UNCHANGED <<s_g_rootNode, s_g_logCount, s_g_rootNodeMutex, files,
                   clock, process, ncalls, accepted, snap, nrot>>

\* Lines 373-391, with s_g_cLoggerMutex held.
DestroyConfig(t) ==
    /\ Running(t)
    /\ pc[t] = "destroy_cfg"
    /\ s_g_filePath' = NULL
    /\ s_g_rotatedFilesQueue' = NullQueue
    /\ s_g_logCount' = 0
    /\ s_g_logLevel' = LEVEL_START
    /\ s_g_cLoggerMutex' = 0
    /\ Return(t, loc)
    /\ life' = "Destroyed"
    /\ UNCHANGED <<s_g_rootNode, s_g_rootNodeMutex, files, clock, process,
                   ncalls, accepted, snap, nrot>>

(***************************************************************************)
(* Process exit: main returns, exit runs the handlers that atexit          *)
(* registered, one after the other on the main thread.                     *)
(***************************************************************************)
MainThread == 1

\* main returns while no thread is inside the library.
Exit ==
    /\ status = "running"
    /\ \A t \in threads : pc[t] = "idle"
    /\ status' = "exiting"
    /\ UNCHANGED <<globals, mutexes, files, clock, build, threads, atexit, pc,
                   stack, loc, ncalls, history>>

\* exit calls the next registered handler, cJSONLoggerDestroy (line 357).
RunExitHandler ==
    /\ status = "exiting"
    /\ pc[MainThread] = "idle"
    /\ atexit.ran < atexit.registered
    /\ atexit' = [atexit EXCEPT !.ran = @ + 1]
    /\ loc' = [loc EXCEPT ![MainThread] = [NoLoc EXCEPT !.op = "destroy"]]
    /\ Call(MainThread, "dump_lock_root", "destroy_lock_root")
    /\ TakeSnap
    /\ UNCHANGED <<globals, mutexes, files, clock, status, build, threads,
                   ncalls, accepted, nrot, life>>

\* Every handler has run: the process ends.
ExitDone ==
    /\ status = "exiting"
    /\ pc[MainThread] = "idle"
    /\ atexit.ran = atexit.registered
    /\ status' = "exited"
    /\ UNCHANGED <<globals, mutexes, files, clock, build, threads, atexit, pc,
                   stack, loc, ncalls, history>>

(***************************************************************************)
(* cJSONLoggerRotate                                                       *)
(***************************************************************************)
\* A registry that takes every path, full or not, and removes no file.
RotateRegistryMutant(q, rotatedFilePath) ==
    [queue |-> [q EXCEPT !.rotatedFiles[q.tail] = rotatedFilePath,
                         !.tail = (q.tail + 1) % MAX_LOG_ROTATION_FILES,
                         !.currentSize = q.currentSize + 1],
     removed |-> NoFile]

\* A full registry that gives up its newest path, not its oldest.
RotateRegistryNewestMutant(q, rotatedFilePath) ==
    LET last == (q.tail + MAX_LOG_ROTATION_FILES - 1) % MAX_LOG_ROTATION_FILES
    IN IF q.currentSize < MAX_LOG_ROTATION_FILES
       THEN [queue |-> [q EXCEPT !.rotatedFiles[q.tail] = rotatedFilePath,
                                 !.tail = (q.tail + 1) % MAX_LOG_ROTATION_FILES,
                                 !.currentSize = q.currentSize + 1],
             removed |-> NoFile]
       ELSE [queue |-> [q EXCEPT !.rotatedFiles[last] = NoFile,
                                 !.tail = last,
                                 !.currentSize = q.currentSize - 1],
             removed |-> q.rotatedFiles[last]]

\* Lines 544-562: the path goes into the registry while there is room;
\* when the registry is full its oldest path leaves it instead.  removed is
\* the file given to remove(), NoFile when nothing is removed.
RotateRegistry(q, rotatedFilePath) ==
    IF q.currentSize < MAX_LOG_ROTATION_FILES
    THEN [queue |-> [q EXCEPT !.rotatedFiles[q.tail] = rotatedFilePath,
                              !.tail = (q.tail + 1) % MAX_LOG_ROTATION_FILES,
                              !.currentSize = q.currentSize + 1],
          removed |-> NoFile]
    ELSE [queue |-> [q EXCEPT !.rotatedFiles[q.head] = NoFile,
                              !.head = (q.head + 1) % MAX_LOG_ROTATION_FILES,
                              !.currentSize = q.currentSize - 1],
          removed |-> q.rotatedFiles[q.head]]

\* Lines 517-528: the time stamp of the rotated file is read first.
CallRotate(t) ==
    /\ Enter(t)
    /\ loc' = [loc EXCEPT ![t] = [NoLoc EXCEPT !.op = "rotate",
                                               !.timeStr = clock]]
    /\ clock' = clock + 1
    /\ Goto(t, "rotate_lock_cfg")
    /\ UNCHANGED <<globals, mutexes, files, process, accepted, nrot, life>>

\* Lines 531-569, with s_g_cLoggerMutex held.  strlen(s_g_filePath) on a
\* NULL path is a read through the null pointer: the process dies.  An
\* assertion on the result of remove() stops the debug build only.
RotateConfig(t) ==
    /\ Running(t)
    /\ pc[t] = "rotate_cfg"
    /\ s_g_logCount' = 0
    /\ LET q == IF s_g_rotatedFilesQueue.alloc THEN s_g_rotatedFilesQueue
                ELSE CallocQueue
           name == RotatedFile(loc[t].timeStr, s_g_filePath)
           r == RotateRegistry(q, name)
           gone == r.removed # NoFile /\ r.removed \notin DOMAIN files
       IN IF s_g_filePath = NULL
          THEN /\ s_g_rotatedFilesQueue' = q
               /\ Die(t, "crashed")
               /\ UNCHANGED <<files, loc, s_g_cLoggerMutex>>
          ELSE IF gone /\ build = "debug"
          THEN /\ s_g_rotatedFilesQueue' = q
               /\ Die(t, "aborted")
               /\ UNCHANGED <<files, loc, s_g_cLoggerMutex>>
          ELSE /\ s_g_rotatedFilesQueue' = r.queue
               /\ files' = OpenForWrite(
                              IF r.removed # NoFile
                              THEN RemoveFile(files, r.removed) ELSE files,
                              name)
               /\ loc' = [loc EXCEPT ![t].file = name]
               /\ s_g_cLoggerMutex' = 0
               /\ Goto(t, "rotate_lock_root")
               /\ UNCHANGED status
    /\ UNCHANGED <<s_g_rootNode, s_g_filePath, s_g_logLevel,
                   s_g_rootNodeMutex, clock, build, threads, atexit, ncalls, history>>

\* Lines 572-578, with s_g_rootNodeMutex held.
RotateRoot(t) ==
    /\ Running(t)
    /\ pc[t] = "rotate_root"
    /\ IF s_g_rootNode # <<>>
       THEN /\ loc' = [Dangle(loc) EXCEPT
                         ![t].string = cJSON_Print(s_g_rootNode)]
            /\ s_g_rootNode' = <<CreateObject>>
            /\ nrot' = IF loc[t].op = "rotate"
                       THEN [nrot EXCEPT !.byCall = @ + 1,
                                         !.at = Len(accepted)]
                       ELSE [nrot EXCEPT !.byLog = @ + 1,
                                         !.at = Len(accepted)]
       ELSE /\ loc' = [loc EXCEPT ![t].string = <<>>]
            /\ UNCHANGED <<s_g_rootNode, nrot>>
    /\ s_g_rootNodeMutex' = 0
    /\ Goto(t, "rotate_write")
    /\ UNCHANGED <<s_g_filePath, s_g_logLevel, s_g_logCount,
                   s_g_rotatedFilesQueue, s_g_cLoggerMutex, files, clock,
                   process, ncalls, accepted, snap, life>>

\* A rotation that writes what it printed to the primary file.
RotateWriteMutant(t) ==
    /\ Running(t)
    /\ pc[t] = "rotate_write"
    /\ files' = WriteFile(files, PrimaryFile(s_g_filePath), loc[t].string)
    /\ Return(t, loc)
    /\ UNCHANGED <<globals, mutexes, clock, process, ncalls, history>>

\* Lines 580-588.
RotateWrite(t) ==
    /\ Running(t)
    /\ pc[t] = "rotate_write"
    /\ files' = IF loc[t].string = <<>> THEN files
                ELSE WriteFile(files, loc[t].file, loc[t].string)
    /\ Return(t, loc)
    /\ UNCHANGED <<globals, mutexes, clock, process, ncalls, history>>

(***************************************************************************)
(* cJSONLoggerLog, createJsonObject and cJSONLoggerPushLog                 *)
(***************************************************************************)
CallLog(t, call) ==
    /\ Enter(t)
    /\ loc' = [loc EXCEPT ![t] = [NoLoc EXCEPT !.op = "log",
                                               !.logLevel = call.logLevel,
                                               !.call = [fmt |-> call.fmt,
                                                         args |-> call.args],
                                               !.fmt = call.fmt,
                                               !.args = call.args]]
    /\ Goto(t, "log_lock_cfg")
    /\ UNCHANGED <<globals, mutexes, files, clock, process, accepted, nrot, life>>

\* A filter that keeps s_g_cLoggerMutex when the call goes on to the tree.
LogFilterMutant(t) ==
    /\ Running(t)
    /\ pc[t] = "log_filter"
    /\ IF LogLevelFiltered(loc[t].logLevel, s_g_logLevel)
       THEN Return(t, loc) /\ s_g_cLoggerMutex' = 0
       ELSE IF Len(loc[t].fmt) > MAX_LOG_MSG_LEN - 1
            THEN Return(t, loc) /\ s_g_cLoggerMutex' = 0
            ELSE Goto(t, "log_lock_root") /\ UNCHANGED <<loc, s_g_cLoggerMutex>>
    /\ UNCHANGED <<globals, s_g_rootNodeMutex, files, clock, process,
                   ncalls, history>>

\* A filter without the test of the length of the template.
LogFilterAnyLengthMutant(t) ==
    /\ Running(t)
    /\ pc[t] = "log_filter"
    /\ s_g_cLoggerMutex' = 0
    /\ IF LogLevelFiltered(loc[t].logLevel, s_g_logLevel)
       THEN Return(t, loc)
       ELSE Goto(t, "log_lock_root") /\ UNCHANGED loc
    /\ UNCHANGED <<globals, s_g_rootNodeMutex, files, clock, process,
                   ncalls, history>>

\* Lines 397-405, with s_g_cLoggerMutex held for the first test.
LogFilter(t) ==
    /\ Running(t)
    /\ pc[t] = "log_filter"
    /\ s_g_cLoggerMutex' = 0
    /\ IF LogLevelFiltered(loc[t].logLevel, s_g_logLevel)
       THEN Return(t, loc)
       ELSE IF Len(loc[t].fmt) > MAX_LOG_MSG_LEN - 1
            THEN Return(t, loc)
            ELSE Goto(t, "log_lock_root") /\ UNCHANGED loc
    /\ UNCHANGED <<globals, s_g_rootNodeMutex, files, clock, process,
                   ncalls, history>>

\* A log that reads the header and leaves its three arguments where they
\* are.
LogRootMutant(t) ==
    /\ Running(t)
    /\ pc[t] = "log_root"
    /\ s_g_rootNodeMutex' = 0
    /\ IF s_g_rootNode = <<>>
       THEN /\ Return(t, loc)
            /\ UNCHANGED clock
       ELSE /\ LET l == loc[t]
                   hdr == IsPrefix(HeaderPrefix, l.fmt)
               IN loc' = [loc EXCEPT ![t] =
                    [l EXCEPT
                       !.node = 1,
                       !.logInfo =
                          [timeStamp |-> clock,
                           logLevel |-> l.logLevel,
                           fileName |-> IF hdr THEN l.args[1] ELSE NULL,
                           funcName |-> IF hdr THEN l.args[2] ELSE NULL,
                           fileLine |-> IF hdr THEN l.args[3] ELSE "0"],
                       !.fmt = IF hdr THEN Drop(l.fmt, Len(HeaderPrefix))
                               ELSE l.fmt]]
            /\ clock' = clock + 1
            /\ Goto(t, "log_parse")
    /\ UNCHANGED <<globals, s_g_cLoggerMutex, files, process, ncalls, history>>

\* Lines 408-441, with s_g_rootNodeMutex held for the test of the root:
\* the node pointer is taken, the time stamp is read and the header of the
\* macros is taken off the template.
LogRoot(t) ==
    /\ Running(t)
    /\ pc[t] = "log_root"
    /\ s_g_rootNodeMutex' = 0
    /\ IF s_g_rootNode = <<>>
       THEN /\ Return(t, loc)
            /\ UNCHANGED clock
       ELSE /\ LET l == loc[t]
                   hdr == IsPrefix(HeaderPrefix, l.fmt)
               IN loc' = [loc EXCEPT ![t] =
                    [l EXCEPT
                       !.node = 1,
                       !.logInfo =
                          [timeStamp |-> clock,
                           logLevel |-> l.logLevel,
                           fileName |-> IF hdr THEN l.args[1] ELSE NULL,
                           funcName |-> IF hdr THEN l.args[2] ELSE NULL,
                           fileLine |-> IF hdr THEN l.args[3] ELSE "0"],
                       !.fmt = IF hdr THEN Drop(l.fmt, Len(HeaderPrefix))
                               ELSE l.fmt,
                       !.args = IF hdr THEN Drop(l.args, 3) ELSE l.args]]
            /\ clock' = clock + 1
            /\ Goto(t, "log_parse")
    /\ UNCHANGED <<globals, s_g_cLoggerMutex, files, process, ncalls, history>>

\* The number of arguments vsnprintf takes for the conversions of buf.
RECURSIVE ArgsTaken(_)
ArgsTaken(buf) ==
    LET p == FirstPercent(buf)
    IN IF p = 0 \/ p = Len(buf) THEN 0
       ELSE (IF buf[p + 1] = "s" THEN 1 ELSE 0) + ArgsTaken(Drop(buf, p + 1))

\* Lines 443-489: the parser runs to the next node directive or to the end
\* of the template.  A fragment that is not empty is formatted and handed
\* to cJSONLoggerPushLog.  After vsnprintf has read the va_list its state in
\* the caller is indeterminate: it has moved on or it has not.  A template
\* that ends in '%' makes the loop read past the terminating NUL: the next
\* byte ends the loop, or the process dies.
LogParse(t) ==
    /\ Running(t)
    /\ pc[t] = "log_parse"
    /\ LET l == loc[t]
           r == ScanFragment(l.fmt, l.logMsgFmt)
           taken == ArgsTaken(r.buf)
       IN \E adv \in {0, taken} : \E dies \in {FALSE, r.kind = "past"} :
          LET after == [loc EXCEPT ![t] =
                    [l EXCEPT !.fmt = r.fmt,
                              !.logMsgFmt = <<>>,
                              !.logMsg = Vsnprintf(MAX_LOG_MSG_LEN - 1, r.buf,
                                                   l.args),
                              !.args = IF Len(l.args) >= adv
                                       THEN Drop(l.args, adv) ELSE <<>>]]
          IN IF dies
             THEN /\ Die(t, "crashed")
                  /\ UNCHANGED loc
             ELSE /\ UNCHANGED status
                  /\ IF r.kind = "node"
                     THEN /\ loc' = after
                          /\ IF r.buf # <<>>
                             THEN Call(t, "push_lock_root", "log_has")
                             ELSE Goto(t, "log_has")
                     ELSE IF r.buf # <<>>
                          THEN loc' = after /\ Goto(t, "push_lock_root")
                          ELSE Return(t, after)
    /\ UNCHANGED <<globals, mutexes, files, clock, build, threads, atexit, ncalls,
                   history>>

\* The outcomes of an access through a dangling node pointer: the process
\* dies, or the access lands in freed memory and the tree in use is not
\* touched.
DanglingOutcomes == {"crash", "freed"}

\* Lines 464-465 and 322 of createJsonObject, no mutex held: the next
\* argument is the node name and the node is searched for it.
LogHas(t) ==
    /\ Running(t)
    /\ pc[t] = "log_has"
    /\ LET l == loc[t]
           c == Head(l.args)
       IN IF l.stale
          THEN \E o \in DanglingOutcomes :
                IF o = "crash"
                THEN /\ Die(t, "crashed")
                     /\ UNCHANGED loc
                ELSE /\ loc' = [loc EXCEPT ![t] =
                           [l EXCEPT !.nodeName = c, !.args = Tail(l.args),
                                     !.segs = Append(l.segs, c),
                                     !.found = FALSE]]
                     /\ Goto(t, "log_add")
                     /\ UNCHANGED status
          ELSE /\ loc' = [loc EXCEPT ![t] =
                     [l EXCEPT !.nodeName = c, !.args = Tail(l.args),
                               !.segs = Append(l.segs, c),
                               !.found = HasObjectItem(s_g_rootNode, l.node, c)]]
               /\ Goto(t, "log_add")
               /\ UNCHANGED status
    /\ UNCHANGED <<globals, mutexes, files, clock, build, threads, atexit, ncalls,
                   history>>

\* Lines 323-333 of createJsonObject, no mutex held: the child found is
\* taken, or a new child is added at the end of the node.
CreateJsonObjectTree(tree, node, nodeName, found) ==
    IF found THEN tree
    ELSE AddItemToObject(tree, node, nodeName, CreateObject)

CreateJsonObjectNode(tree, node, nodeName, found) ==
    IF found THEN GetObjectItem(tree, node, nodeName)
    ELSE Len(tree) + 1

LogAdd(t) ==
    /\ Running(t)
    /\ pc[t] = "log_add"
    /\ LET l == loc[t]
       IN IF l.stale
          THEN \E o \in DanglingOutcomes :
                IF o = "crash"
                THEN /\ Die(t, "crashed")
                     /\ UNCHANGED <<s_g_rootNode, loc>>
                ELSE /\ Goto(t, "log_parse")
                     /\ UNCHANGED <<s_g_rootNode, loc, status>>
          ELSE /\ s_g_rootNode' =
                    CreateJsonObjectTree(s_g_rootNode, l.node, l.nodeName,
                                         l.found)
               /\ loc' = [loc EXCEPT ![t].node =
                    CreateJsonObjectNode(s_g_rootNode, l.node, l.nodeName,
                                         l.found)]
               /\ Goto(t, "log_parse")
               /\ UNCHANGED status
    /\ UNCHANGED <<s_g_filePath, s_g_logLevel, s_g_logCount,
                   s_g_rotatedFilesQueue, mutexes, files, clock, build,
                   threads, atexit, ncalls, history>>

\* Lines 269-298 of cJSONLoggerPushLog, with s_g_rootNodeMutex held.
PushAppend(t) ==
    /\ Running(t)
    /\ pc[t] = "push_append"
    /\ LET l == loc[t]
           rec == MakeLog(l.logInfo, l.logMsg)
       IN /\ accepted' = Append(accepted, [path |-> l.segs, rec |-> rec])
          /\ IF l.stale
             THEN \E o \in DanglingOutcomes :
                   IF o = "crash"
                   THEN /\ Die(t, "crashed")
                        /\ UNCHANGED <<s_g_rootNode, s_g_rootNodeMutex>>
                   ELSE /\ s_g_rootNodeMutex' = 0
                        /\ Goto(t, "push_lock_cfg")
                        /\ UNCHANGED <<s_g_rootNode, status>>
             ELSE /\ s_g_rootNode' = PushLogTree(s_g_rootNode, l.node, rec)
                  /\ s_g_rootNodeMutex' = 0
                  /\ Goto(t, "push_lock_cfg")
                  /\ UNCHANGED status
    /\ UNCHANGED <<s_g_filePath, s_g_logLevel, s_g_logCount,
                   s_g_rotatedFilesQueue, s_g_cLoggerMutex, files, clock,
                   build, threads, atexit, loc, ncalls, snap, nrot, life>>

\* Lines 300-308 of cJSONLoggerPushLog, with s_g_cLoggerMutex held: past
\* MAX_LOG_COUNT records cJSONLoggerRotate is called, which reads the clock
\* first (lines 517-528).
PushCount(t) ==
    /\ Running(t)
    /\ pc[t] = "push_count"
    /\ s_g_logCount' = s_g_logCount + 1
    /\ s_g_cLoggerMutex' = 0
    /\ IF s_g_logCount + 1 > MAX_LOG_COUNT
       THEN /\ loc' = [loc EXCEPT ![t].timeStr = clock]
            /\ clock' = clock + 1
            /\ Goto(t, "rotate_lock_cfg")
       ELSE /\ Return(t, loc)
            /\ UNCHANGED clock
    /\ UNCHANGED <<s_g_rootNode, s_g_filePath, s_g_logLevel,
                   s_g_rotatedFilesQueue, s_g_rootNodeMutex, files, process,
                   ncalls, history>>

(***************************************************************************)
(* The specifications.                                                     *)
(***************************************************************************)
Next ==
    \E t \in AllThreads :
        \/ \E lv \in InitLevels, p \in FilePaths : CallInit(t, lv, p)
        \/ InitRoot(t)
        \/ InitPath(t)
        \/ \E lv \in SetLevels : CallSetLogLevel(t, lv)
        \/ SetLogLevelBody(t)
        \/ CallDestroy(t)
        \/ DestroyRoot(t)
        \/ DestroyConfig(t)
        \/ CallDump(t)
        \/ DumpPrint(t)
        \/ DumpOpen(t)
        \/ DumpWrite(t)
        \/ CallRotate(t)
        \/ RotateConfig(t)
        \/ RotateRoot(t)
        \/ RotateWrite(t)
        \/ \E call \in LogCalls : CallLog(t, call)
        \/ LogFilter(t)
        \/ LogRoot(t)
        \/ LogParse(t)
        \/ LogHas(t)
        \/ LogAdd(t)
        \/ PushAppend(t)
        \/ PushCount(t)
        \/ LockRootNodeMutex(t)
        \/ LockCLoggerMutex(t)

\* The library called by one thread.
Spec == Init /\ [][Next]_vars

\* Two threads initialise the logger and log.
NextLogMT ==
    \E t \in AllThreads :
        \/ \E lv \in InitLevels, p \in FilePaths : CallInit(t, lv, p)
        \/ InitRoot(t)
        \/ InitPath(t)
        \/ SetLogLevelBody(t)
        \/ \E call \in LogCallsMT : CallLog(t, call)
        \/ LogFilter(t)
        \/ LogRoot(t)
        \/ LogParse(t)
        \/ LogHas(t)
        \/ LogAdd(t)
        \/ PushAppend(t)
        \/ PushCount(t)
        \/ RotateConfig(t)
        \/ RotateRoot(t)
        \/ RotateWrite(t)
        \/ LockRootNodeMutex(t)
        \/ LockCLoggerMutex(t)

SpecLogMT == InitMT /\ [][NextLogMT]_vars

\* Two threads initialise the logger, log and rotate.
NextRotateMT ==
    \/ NextLogMT
    \/ \E t \in AllThreads : CallRotate(t)

SpecRotateMT == InitMT /\ [][NextRotateMT]_vars

\* One thread initialises the logger and rotates, many times.
NextRotate ==
    \E t \in AllThreads :
        \/ \E lv \in InitLevels, p \in FilePaths : CallInit(t, lv, p)
        \/ InitRoot(t)
        \/ InitPath(t)
        \/ SetLogLevelBody(t)
        \/ CallRotate(t)
        \/ RotateConfig(t)
        \/ RotateRoot(t)
        \/ RotateWrite(t)
        \/ LockRootNodeMutex(t)
        \/ LockCLoggerMutex(t)

SpecRotate == InitRotate /\ [][NextRotate]_vars

\* One thread initialises the logger, logs under one node and dumps.
NextBurst ==
    \E t \in AllThreads :
        \/ \E lv \in InitLevels, p \in FilePaths : CallInit(t, lv, p)
        \/ InitRoot(t)
        \/ InitPath(t)
        \/ SetLogLevelBody(t)
        \/ \E call \in LogCallsBurst : CallLog(t, call)
        \/ LogFilter(t)
        \/ LogRoot(t)
        \/ LogParse(t)
        \/ LogHas(t)
        \/ LogAdd(t)
        \/ PushAppend(t)
        \/ PushCount(t)
        \/ RotateConfig(t)
        \/ RotateRoot(t)
        \/ RotateWrite(t)
        \/ CallDump(t)
        \/ DumpPrint(t)
        \/ DumpOpen(t)
        \/ DumpWrite(t)
        \/ LockRootNodeMutex(t)
        \/ LockCLoggerMutex(t)

SpecBurst == InitBurst /\ [][NextBurst]_vars

\* One thread initialises the logger more than once, logs and rotates.
NextReinit ==
    \E t \in AllThreads :
        \/ \E c \in InitCallsReinit : CallInit(t, c.logLevel, c.filePath)
        \/ InitRoot(t)
        \/ InitPath(t)
        \/ SetLogLevelBody(t)
        \/ \E call \in LogCallsBurst : CallLog(t, call)
        \/ LogFilter(t)
        \/ LogRoot(t)
        \/ LogParse(t)
        \/ LogHas(t)
        \/ LogAdd(t)
        \/ PushAppend(t)
        \/ PushCount(t)
        \/ CallRotate(t)
        \/ RotateConfig(t)
        \/ RotateRoot(t)
        \/ RotateWrite(t)
        \/ LockRootNodeMutex(t)
        \/ LockCLoggerMutex(t)

SpecReinit == InitReinit /\ [][NextReinit]_vars

\* One thread initialises the logger, logs, dumps and destroys.
NextLife ==
    \E t \in AllThreads :
        \/ \E lv \in InitLevels, p \in FilePaths : CallInit(t, lv, p)
        \/ InitRoot(t)
        \/ InitPath(t)
        \/ SetLogLevelBody(t)
        \/ CallDestroy(t)
        \/ DestroyRoot(t)
        \/ DestroyConfig(t)
        \/ CallDump(t)
        \/ DumpPrint(t)
        \/ DumpOpen(t)
        \/ DumpWrite(t)
        \/ \E call \in LogCallsBurst : CallLog(t, call)
        \/ LogFilter(t)
        \/ LogRoot(t)
        \/ LogParse(t)
        \/ LogHas(t)
        \/ LogAdd(t)
        \/ PushAppend(t)
        \/ PushCount(t)
        \/ RotateConfig(t)
        \/ RotateRoot(t)
        \/ RotateWrite(t)
        \/ LockRootNodeMutex(t)
        \/ LockCLoggerMutex(t)

SpecLife == InitLife /\ [][NextLife]_vars

\* One thread initialises the logger and logs long templates.
NextLong ==
    \E t \in AllThreads :
        \/ \E lv \in InitLevels, p \in FilePaths : CallInit(t, lv, p)
        \/ InitRoot(t)
        \/ InitPath(t)
        \/ SetLogLevelBody(t)
        \/ \E call \in LogCallsLong : CallLog(t, call)
        \/ LogFilter(t)
        \/ LogRoot(t)
        \/ LogParse(t)
        \/ PushAppend(t)
        \/ PushCount(t)
        \/ RotateConfig(t)
        \/ RotateRoot(t)
        \/ RotateWrite(t)
        \/ LockRootNodeMutex(t)
        \/ LockCLoggerMutex(t)

SpecLong == InitLong /\ [][NextLong]_vars

\* One thread initialises the logger any number of times and logs; then
\* main returns and exit runs the registered handlers.
NextExit ==
    \/ Exit
    \/ RunExitHandler
    \/ ExitDone
    \/ \E t \in AllThreads :
        \/ \E lv \in InitLevels, p \in FilePaths : CallInit(t, lv, p)
        \/ InitRoot(t)
        \/ InitPath(t)
        \/ SetLogLevelBody(t)
        \/ DestroyRoot(t)
        \/ DestroyConfig(t)
        \/ DumpPrint(t)
        \/ DumpOpen(t)
        \/ DumpWrite(t)
        \/ \E call \in LogCallsBurst : CallLog(t, call)
        \/ LogFilter(t)
        \/ LogRoot(t)
        \/ LogParse(t)
        \/ LogHas(t)
        \/ LogAdd(t)
        \/ PushAppend(t)
        \/ PushCount(t)
        \/ RotateConfig(t)
        \/ RotateRoot(t)
        \/ RotateWrite(t)
        \/ LockRootNodeMutex(t)
        \/ LockCLoggerMutex(t)

SpecExit == InitExit /\ [][NextExit]_vars

\* One thread initialises the logger and logs one template.
NextParse ==
    \E t \in AllThreads :
        \/ \E lv \in InitLevels, p \in FilePaths : CallInit(t, lv, p)
        \/ InitRoot(t)
        \/ InitPath(t)
        \/ SetLogLevelBody(t)
        \/ \E call \in LogCallsParse : CallLog(t, call)
        \/ LogFilter(t)
        \/ LogRoot(t)
        \/ LogParse(t)
        \/ LogHas(t)
        \/ LogAdd(t)
        \/ PushAppend(t)
        \/ PushCount(t)
        \/ LockRootNodeMutex(t)
        \/ LockCLoggerMutex(t)

SpecParse == InitParse /\ [][NextParse]_vars

\* One thread initialises the logger and logs with and without the header
\* of the macros.
NextHeader ==
    \E t \in AllThreads :
        \/ \E lv \in InitLevels, p \in FilePaths : CallInit(t, lv, p)
        \/ InitRoot(t)
        \/ InitPath(t)
        \/ SetLogLevelBody(t)
        \/ \E call \in LogCallsHeader : CallLog(t, call)
        \/ LogFilter(t)
        \/ LogRoot(t)
        \/ LogParse(t)
        \/ LogHas(t)
        \/ LogAdd(t)
        \/ PushAppend(t)
        \/ PushCount(t)
        \/ LockRootNodeMutex(t)
        \/ LockCLoggerMutex(t)

SpecHeader == InitHeader /\ [][NextHeader]_vars

\* Two threads initialise the logger, dump and destroy.
NextLifeMT ==
    \E t \in AllThreads :
        \/ \E call \in InitCallsMT :
              CallInit(t, call.logLevel, call.filePath)
        \/ InitRoot(t)
        \/ InitPath(t)
        \/ SetLogLevelBody(t)
        \/ CallDestroy(t)
        \/ DestroyRoot(t)
        \/ DestroyConfig(t)
        \/ CallDump(t)
        \/ DumpPrint(t)
        \/ DumpOpen(t)
        \/ DumpWrite(t)
        \/ LockRootNodeMutex(t)
        \/ LockCLoggerMutex(t)

SpecLifeMT == InitLifeMT /\ [][NextLifeMT]_vars

\* Two threads initialise the logger, log at the root and dump; the calls are
\* too few for a rotation.
NextDumpMT ==
    \E t \in AllThreads :
        \/ \E lv \in InitLevels, p \in FilePaths : CallInit(t, lv, p)
        \/ InitRoot(t)
        \/ InitPath(t)
        \/ SetLogLevelBody(t)
        \/ CallDump(t)
        \/ DumpPrint(t)
        \/ DumpOpen(t)
        \/ DumpWrite(t)
        \/ \E call \in LogCallsDumpMT : CallLog(t, call)
        \/ LogFilter(t)
        \/ LogRoot(t)
        \/ LogParse(t)
        \/ PushAppend(t)
        \/ PushCount(t)
        \/ LockRootNodeMutex(t)
        \/ LockCLoggerMutex(t)

SpecDumpMT == InitDumpMT /\ [][NextDumpMT]_vars

\* Two threads initialise the logger, each with a level and a path of its
\* own.
NextInitMT ==
    \E t \in AllThreads :
        \/ \E call \in InitCallsMT : CallInit(t, call.logLevel, call.filePath)
        \/ InitRoot(t)
        \/ InitPath(t)
        \/ SetLogLevelBody(t)
        \/ LockRootNodeMutex(t)
        \/ LockCLoggerMutex(t)

SpecInitMT == InitMT /\ [][NextInitMT]_vars

\* One thread initialises the logger, rotates many times and destroys it.
NextRotateDestroy ==
    \/ NextRotate
    \/ \E t \in AllThreads :
          \/ CallDestroy(t)
          \/ DumpPrint(t)
          \/ DumpOpen(t)
          \/ DumpWrite(t)
          \/ DestroyRoot(t)
          \/ DestroyConfig(t)

SpecRotateDestroy == InitRotate /\ [][NextRotateDestroy]_vars

\* A thread calls a function of the library.
ThreadCall(t) ==
    \/ \E lv \in InitLevels, p \in FilePaths : CallInit(t, lv, p)
    \/ \E lv \in SetLevels : CallSetLogLevel(t, lv)
    \/ CallDestroy(t)
    \/ CallDump(t)
    \/ CallRotate(t)
    \/ \E call \in LogCallsFair : CallLog(t, call)

\* A thread takes a step inside the library.
ThreadInternal(t) ==
    \/ InitRoot(t)
    \/ InitPath(t)
    \/ SetLogLevelBody(t)
    \/ DestroyRoot(t)
    \/ DestroyConfig(t)
    \/ DumpPrint(t)
    \/ DumpOpen(t)
    \/ DumpWrite(t)
    \/ RotateConfig(t)
    \/ RotateRoot(t)
    \/ RotateWrite(t)
    \/ LogFilter(t)
    \/ LogRoot(t)
    \/ LogParse(t)
    \/ LogHas(t)
    \/ LogAdd(t)
    \/ PushAppend(t)
    \/ PushCount(t)
    \/ LockRootNodeMutex(t)
    \/ LockCLoggerMutex(t)

\* Two threads call every function of the library.
NextFair == \E t \in AllThreads : ThreadCall(t) \/ ThreadInternal(t)

\* The scheduler lets every thread that can take a step inside the library
\* take one in the end.
SpecFair ==
    /\ InitFair
    /\ [][NextFair]_vars
    /\ \A t \in AllThreads : WF_vars(ThreadInternal(t))

(***************************************************************************)
(* Properties.                                                             *)
(***************************************************************************)
\* Thread t takes the step.
Steps(t) == pc'[t] # pc[t] \/ loc'[t] # loc[t] \/ stack'[t] # stack[t]

\* The records a printed document shows under the node at path: the items
\* of the "logs" array printed with the keys of path.
RECURSIVE DocRecords(_, _)
DocRecords(doc, path) ==
    IF doc = <<>> THEN <<>>
    ELSE (IF Head(doc).kind = "array" /\ Head(doc).path = Append(path, "logs")
          THEN Head(doc).items ELSE <<>>) \o DocRecords(Tail(doc), path)

\* The records the calls handed over for the node at path, in call order.
RECURSIVE AcceptedAt(_, _)
AcceptedAt(hist, path) ==
    IF hist = <<>> THEN <<>>
    ELSE (IF Head(hist).path = path THEN <<Head(hist).rec>> ELSE <<>>)
            \o AcceptedAt(Tail(hist), path)

\* The paths of the objects of a printed document.
DocNodes(doc) == {doc[i].path : i \in {j \in 1..Len(doc) : doc[j].kind = "object"}}

\* What is printed has, node by node, the records of the calls, each once
\* and in call order, and no other record.
DocMatches(doc) ==
    \A path \in DocNodes(doc) \cup {accepted[i].path : i \in 1..Len(accepted)} :
        DocRecords(doc, path) = AcceptedAt(accepted, path)

DocMatchesCalls == DocMatches(cJSON_Print(s_g_rootNode))

\* C1, as claimed: after any sequence of log calls at accepted levels on an
\* Active logger (no call of rotate among them) the serialization of the
\* tree has every logged record exactly once, under the node the path
\* segments of its call name, the records of a node in call order.
C1_AnySequence ==
    (s_g_rootNode # <<>> /\ nrot.byCall = 0) => DocMatchesCalls

\* C1, amended: the same while no rotation has replaced the tree, that is
\* while the calls since init have handed over at most MAX_LOG_COUNT
\* records.
C1_UntilRotation ==
    (s_g_rootNode # <<>> /\ nrot.byCall = 0 /\ nrot.byLog = 0)
        => DocMatchesCalls

\* Two calls have left a record each in the same node, and one call has
\* left records in two nodes.
C1_Witness ==
    /\ s_g_rootNode # <<>>
    /\ nrot = NoRot
    /\ Len(AcceptedAt(accepted, <<"a">>)) >= 2
    /\ DocMatchesCalls
    /\ \A t \in threads : pc[t] = "idle"

\* C2, as claimed: a step of a log call whose level is above the threshold
\* leaves the tree as it is, for every value of the level type.
C2_AboveThresholdNoChange ==
    [][\A t \in threads :
          (loc[t].op = "log" /\ pc[t] # "idle" /\ Steps(t)
             /\ loc[t].logLevel \in Levels
             /\ loc[t].logLevel > s_g_logLevel)
          => s_g_rootNode' = s_g_rootNode]_vars

\* C3, as claimed: a log call hands a record to the tree only if the logger
\* is Active and its level is inside (START, END) and not above the
\* threshold, and a call with these properties passes the filter.
C3_AppendsIffShouldLog ==
    /\ [](\A t \in threads :
            pc[t] = "push_append"
            => /\ life = "Active"
               /\ loc[t].logLevel > LEVEL_START
               /\ loc[t].logLevel < LEVEL_END
               /\ loc[t].logLevel <= s_g_logLevel)
    /\ [][\A t \in threads :
            (pc[t] = "log_filter" /\ Steps(t)
               /\ loc[t].logLevel > LEVEL_START
               /\ loc[t].logLevel < LEVEL_END
               /\ loc[t].logLevel <= s_g_logLevel)
            => pc'[t] = "log_lock_root"]_vars

\* C4: set_threshold(x) makes x the threshold when x is inside (START, END)
\* and changes nothing else; for any other x it changes nothing at all;
\* and a log call whose level is valid and not above the threshold passes
\* the filter.
C4_SetThreshold ==
    [][\A t \in threads :
          /\ (pc[t] = "set_level" /\ Steps(t))
             => /\ UNCHANGED <<s_g_rootNode, s_g_filePath, s_g_logCount,
                               s_g_rotatedFilesQueue, files>>
                /\ IF loc[t].logLevel > LEVEL_START
                      /\ loc[t].logLevel < LEVEL_END
                   THEN s_g_logLevel' = loc[t].logLevel
                   ELSE s_g_logLevel' = s_g_logLevel
          /\ (pc[t] = "log_filter" /\ Steps(t)
                /\ loc[t].logLevel > LEVEL_START
                /\ loc[t].logLevel <= s_g_logLevel
                /\ Len(loc[t].fmt) < MAX_LOG_MSG_LEN)
             => pc'[t] = "log_lock_root"]_vars

\* The threshold was raised to DEBUG by set_threshold (init gives INFO) and
\* a DEBUG record was accepted after that.
C4_Witness ==
    /\ s_g_logLevel = LEVEL_DEBUG
    /\ \E i \in 1..Len(accepted) : accepted[i].rec.LogLevel = "DEBUG"
    /\ DocRecords(cJSON_Print(s_g_rootNode), <<"a">>) # <<>>

\* The content of the primary file of path, <<>> when there is no such file.
PrimaryContent(fs, path) ==
    IF PrimaryFile(path) \in DOMAIN fs THEN fs[PrimaryFile(path)] ELSE <<>>

\* No rotation has replaced the tree since init created it.
NoRotation == nrot = NoRot

\* C5, as claimed: while the logger is Uninitialized or Destroyed, a step of
\* log, dump or rotate changes no global (tree, path, threshold, counter,
\* registry) and no file, and the process goes on running.
C5_NotActiveNoOp ==
    [][\A t \in threads :
          (life # "Active" /\ loc[t].op \in {"log", "dump", "rotate"}
             /\ pc[t] # "idle" /\ Steps(t))
          => /\ UNCHANGED <<globals, files>>
             /\ status' = "running"]_vars

\* C6, as claimed: a log call that finds no tree although its level passed
\* the filter (a valid level, not above the threshold) stops the debug build
\* at an assertion and returns without effect in the other builds.
C6_DebugAborts ==
    [][\A t \in threads :
          (pc[t] = "log_root" /\ Steps(t) /\ life = "Uninitialized"
             /\ s_g_rootNode = <<>>
             /\ loc[t].logLevel > LEVEL_START
             /\ loc[t].logLevel < LEVEL_END
             /\ loc[t].logLevel <= s_g_logLevel)
          => IF build = "debug"
             THEN status' = "aborted"
             ELSE /\ status' = "running"
                  /\ pc'[t] = "idle"
                  /\ UNCHANGED <<globals, files>>]_vars

\* C7: once destroy has returned, and until the next init, a step of a log
\* call or of a dump hands over no record and changes neither the tree nor
\* any file nor the counter nor the registry, and the call does not stop
\* the process: the primary file stays as destroy wrote it.
C7_AfterDestroy ==
    [][\A t \in threads :
          (life = "Destroyed" /\ loc[t].op \in {"log", "dump"}
             /\ pc[t] # "idle" /\ Steps(t))
          => /\ UNCHANGED <<s_g_rootNode, files, s_g_logCount,
                            s_g_rotatedFilesQueue, accepted>>
             /\ status' = "running"]_vars

\* A log call has returned after destroy: there is no tree, and the primary
\* file that destroy wrote is as it was when the call started.
C7_Witness ==
    /\ life = "Destroyed"
    /\ pc[1] = "idle"
    /\ loc[1].op = "log"
    /\ s_g_rootNode = <<>>
    /\ snap.rootNode = <<>>
    /\ PrimaryFile("log.json") \in DOMAIN files
    /\ files = snap.files

\* destroy has returned to the only thread.
DestroyReturned ==
    threads = {1} /\ pc[1] = "idle" /\ loc[1].op = "destroy"
        /\ status = "running"

\* destroy has written the tree it found to the primary file and has
\* released everything.
DestroyFlushed ==
    /\ s_g_rootNode = <<>>
    /\ s_g_filePath = NULL
    /\ s_g_rotatedFilesQueue = NullQueue
    /\ s_g_logCount = 0
    /\ s_g_logLevel = LEVEL_START
    /\ IF snap.rootNode # <<>>
       THEN /\ PrimaryFile(snap.filePath) \in DOMAIN files
            /\ files[PrimaryFile(snap.filePath)] = cJSON_Print(snap.rootNode)
            /\ \A f \in DOMAIN snap.files \ {PrimaryFile(snap.filePath)} :
                  f \in DOMAIN files /\ files[f] = snap.files[f]
       ELSE files = snap.files

DumpReturned ==
    threads = {1} /\ pc[1] = "idle" /\ loc[1].op = "dump"
        /\ life = "Active" /\ status = "running"

\* A step of a dump leaves tree, counter and registry as they are, and a
\* step of a log call leaves the primary file as the last dump wrote it.
DumpFrame ==
    \A t \in threads :
       /\ (loc[t].op = "dump" /\ pc[t] # "idle" /\ Steps(t))
          => UNCHANGED <<s_g_rootNode, s_g_logCount, s_g_rotatedFilesQueue>>
       /\ (loc[t].op = "log" /\ pc[t] # "idle" /\ Steps(t))
          => PrimaryContent(files', s_g_filePath)
                = PrimaryContent(files, s_g_filePath)

\* C9, as claimed: dump on an Active logger makes the primary file exactly
\* the serialization of the current tree and leaves tree, counter and
\* registry unchanged; a log call leaves the file of the last dump as it
\* is, and the file of a dump has every record logged before that dump
\* (the user has not called rotate).
C9_AllEarlierRecords ==
    /\ [](DumpReturned
            => /\ PrimaryFile(s_g_filePath) \in DOMAIN files
               /\ files[PrimaryFile(s_g_filePath)] = cJSON_Print(s_g_rootNode)
               /\ nrot.byCall = 0
                  => DocMatches(files[PrimaryFile(s_g_filePath)]))
    /\ [][DumpFrame]_vars

\* C9, amended: the same, the file of a dump having every record logged
\* before it as long as no rotation has replaced the tree.
C9_DumpSerializes ==
    /\ [](DumpReturned
            => /\ PrimaryFile(s_g_filePath) \in DOMAIN files
               /\ files[PrimaryFile(s_g_filePath)] = cJSON_Print(s_g_rootNode)
               /\ NoRotation => DocMatches(files[PrimaryFile(s_g_filePath)]))
    /\ [][DumpFrame]_vars

\* A dump of the tree with a record has returned: the file has the record.
C9_Witness ==
    /\ DumpReturned
    /\ NoRotation
    /\ accepted # <<>>
    /\ files[PrimaryFile(s_g_filePath)] = cJSON_Print(s_g_rootNode)
    /\ DocRecords(files[PrimaryFile(s_g_filePath)], <<"a">>) # <<>>

\* C10, as claimed: in every reachable state, those reached by concurrent
\* log calls included, no node of the tree has two children of the same
\* name.
C10_NoDuplicateSiblings ==
    \A i, j \in 1..Len(s_g_rootNode) :
       (i # j /\ s_g_rootNode[i].parent = s_g_rootNode[j].parent
          /\ s_g_rootNode[i].parent # 0)
       => s_g_rootNode[i].name # s_g_rootNode[j].name

\* The number of records a printed document shows, all nodes together.
RECURSIVE RecordsIn(_)
RecordsIn(doc) ==
    IF doc = <<>> THEN 0
    ELSE (IF Head(doc).kind = "array" THEN Len(Head(doc).items) ELSE 0)
            + RecordsIn(Tail(doc))

\* The rotated files on disk.
RotatedFilesOnDisk(fs) == {f \in DOMAIN fs : f.time # 0}

\* The number of records in the files S of fs.
RECURSIVE RecordsInFiles(_, _)
RecordsInFiles(fs, S) ==
    IF S = {} THEN 0
    ELSE LET f == CHOOSE x \in S : TRUE
         IN RecordsIn(fs[f]) + RecordsInFiles(fs, S \ {f})

\* Every call has returned and the process is alive.
Quiescent == status = "running" /\ \A t \in threads : pc[t] = "idle"

\* C11, as claimed: when the concurrent log calls have returned, the live
\* tree and the rotated files together hold exactly the records the calls
\* handed over, none lost and none twice, and as long as nothing was
\* rotated the "logs" array of the root has one record per call that logged
\* at the root.
C11_AllRecordsKept ==
    (Quiescent /\ s_g_rootNode # <<>>)
    => /\ RecordsIn(cJSON_Print(s_g_rootNode))
             + RecordsInFiles(files, RotatedFilesOnDisk(files))
          = Len(accepted)
       /\ NoRotation
          => Len(DocRecords(cJSON_Print(s_g_rootNode), <<>>))
                = Len(AcceptedAt(accepted, <<>>))

\* The times rec is among the items of a sequence of records.
RECURSIVE TimesIn(_, _)
TimesIn(items, rec) ==
    IF items = <<>> THEN 0
    ELSE (IF Head(items) = rec THEN 1 ELSE 0) + TimesIn(Tail(items), rec)

\* The times rec is printed in a document.
RECURSIVE TimesInDoc(_, _)
TimesInDoc(doc, rec) ==
    IF doc = <<>> THEN 0
    ELSE (IF Head(doc).kind = "array" THEN TimesIn(Head(doc).items, rec)
          ELSE 0) + TimesInDoc(Tail(doc), rec)

\* The times rec is printed in the files S of fs.
RECURSIVE TimesInFiles(_, _, _)
TimesInFiles(fs, S, rec) ==
    IF S = {} THEN 0
    ELSE LET f == CHOOSE x \in S : TRUE
         IN TimesInDoc(fs[f], rec) + TimesInFiles(fs, S \ {f}, rec)

\* C12, as claimed: when the calls of a thread that logs and of a thread
\* that rotates have returned, every record handed over is in exactly one
\* place, the live tree or one rotated file.
C12_EachRecordOnePlace ==
    (Quiescent /\ s_g_rootNode # <<>>)
    => \A i \in 1..Len(accepted) :
          TimesInDoc(cJSON_Print(s_g_rootNode), accepted[i].rec)
             + TimesInFiles(files, RotatedFilesOnDisk(files), accepted[i].rec)
          = 1

\* C13, as claimed: the log calls having handed over N records, no call
\* of rotate made by the user, the tree has been rotated at most
\* floor(N / MAX_LOG_COUNT) times.
C13_RotationsBounded ==
    nrot.byCall = 0 => nrot.byLog * MAX_LOG_COUNT <= Len(accepted)

\* The slots of the registry that hold a path.
RegistryEntries(q) == {i \in Slots : q.rotatedFiles[i] # NoFile}

\* C14: in every reachable state the registry holds at most
\* MAX_LOG_ROTATION_FILES entries: currentSize is in 0..5 and is the number
\* of slots that hold a path.
C14_RegistryBounded ==
    /\ s_g_rotatedFilesQueue.currentSize >= 0
    /\ s_g_rotatedFilesQueue.currentSize <= MAX_LOG_ROTATION_FILES
    /\ Cardinality(RegistryEntries(s_g_rotatedFilesQueue))
          = s_g_rotatedFilesQueue.currentSize

\* The registry is full again after its oldest path has left it.
C14_Witness ==
    /\ s_g_rotatedFilesQueue.currentSize = MAX_LOG_ROTATION_FILES
    /\ s_g_rotatedFilesQueue.head # 0
    /\ Quiescent

\* C15, as claimed: at most MAX_LOG_ROTATION_FILES rotated files are on
\* disk, and every rotated file on disk is in the registry.
C15_RotatedFilesBounded ==
    /\ Cardinality(RotatedFilesOnDisk(files)) <= MAX_LOG_ROTATION_FILES
    /\ \A f \in RotatedFilesOnDisk(files) :
          \E i \in Slots : s_g_rotatedFilesQueue.rotatedFiles[i] = f

\* C16, as claimed: a step of a rotation replaces a tree that holds records
\* by an empty root only when the serialization of that tree is already in
\* a rotated file on disk.
C16_ResetAfterWrite ==
    [][\A t \in threads :
          (loc[t].op \in {"rotate", "log"} /\ Steps(t)
             /\ s_g_rootNode # <<>> /\ s_g_rootNode # <<CreateObject>>
             /\ s_g_rootNode' = <<CreateObject>>)
          => \E f \in RotatedFilesOnDisk(files) :
                files[f] = cJSON_Print(s_g_rootNode)]_vars

\* The records of hist from the i-th on.
RecordsFrom(hist, i) ==
    [k \in 1..(Len(hist) - i + 1) |-> hist[i + k - 1].rec]

\* C17, as claimed: when one thread has logged MAX_LOG_COUNT + 1 records
\* under node x and dumped, exactly one rotated file exists, it shows
\* MAX_LOG_COUNT records under x, and the primary file shows the empty object
\* or only the records logged after the rotation.
C17_RotatedFileHoldsMaxCount ==
    (/\ DumpReturned
     /\ nrot.byCall = 0
     /\ Len(accepted) = MAX_LOG_COUNT + 1
     /\ \A i \in 1..Len(accepted) : accepted[i].path = <<"x">>)
    => /\ Cardinality(RotatedFilesOnDisk(files)) = 1
       /\ \A f \in RotatedFilesOnDisk(files) :
             Len(DocRecords(files[f], <<"x">>)) = MAX_LOG_COUNT
       /\ LET doc == PrimaryContent(files, s_g_filePath)
          IN \/ doc = cJSON_Print(<<CreateObject>>)
             \/ /\ DocNodes(doc) \subseteq {<<>>, <<"x">>}
                /\ DocRecords(doc, <<>>) = <<>>
                /\ DocRecords(doc, <<"x">>)
                      = RecordsFrom(accepted, MAX_LOG_COUNT + 1)

\* cJSONLoggerRotate, called on an Active logger, has returned to the only
\* thread.
RotateReturned ==
    threads = {1} /\ pc[1] = "idle" /\ loc[1].op = "rotate"
        /\ life = "Active" /\ status = "running"

\* The files on disk that were not there at the last public call.
NewFiles == DOMAIN files \ DOMAIN snap.files

\* C18: when a call of cJSONLoggerRotate on an Active logger has returned,
\* the files on disk that were not there before the call are exactly one,
\* it is a rotated file of the primary path and not the primary file, its
\* content is the print of the tree as it was before the call, the live
\* tree is an empty root and the counter is 0.
C18_RotateMovesTree ==
    RotateReturned
    => /\ Cardinality(NewFiles) = 1
       /\ \A f \in NewFiles :
             /\ f.time # 0
             /\ f.path = snap.filePath
             /\ f # PrimaryFile(snap.filePath)
             /\ files[f] = cJSON_Print(snap.rootNode)
       /\ s_g_rootNode = <<CreateObject>>
       /\ s_g_logCount = 0

\* C18, witness: a rotate call has returned that found records in the tree
\* and left them in a new file.
C18_Witness ==
    /\ RotateReturned
    /\ RecordsIn(cJSON_Print(snap.rootNode)) > 0
    /\ s_g_rootNode = <<CreateObject>>
    /\ \E f \in NewFiles : RecordsIn(files[f]) > 0

\* C19: a thread that is about to lock s_g_rootNodeMutex does not hold
\* s_g_cLoggerMutex, and no thread holds the two mutexes at once.
C19_NoTreeLockUnderConfigLock ==
    \A t \in threads :
       /\ pc[t] \in RootLockLabels => s_g_cLoggerMutex # t
       /\ ~(s_g_rootNodeMutex = t /\ s_g_cLoggerMutex = t)

\* C19, witness: inside a log call that reached MAX_LOG_COUNT the thread
\* has been through the configuration of cJSONLoggerRotate and is about to
\* lock s_g_rootNodeMutex.
C19_Witness ==
    \E t \in threads :
       /\ status = "running"
       /\ pc[t] = "rotate_lock_root"
       /\ loc[t].op = "log"
       /\ s_g_cLoggerMutex # t

\* C20, as claimed: a step of a thread that changes the tree is made with
\* s_g_rootNodeMutex held by that thread.
C20_TreeChangedUnderLock ==
    [][\A t \in threads :
          (pc'[t] # pc[t] /\ s_g_rootNode' # s_g_rootNode)
          => s_g_rootNodeMutex = t]_vars

\* The labels of the code that reads or writes s_g_logLevel, s_g_filePath,
\* s_g_logCount or s_g_rotatedFilesQueue.
ConfigLabels ==
    {"set_level", "init_path", "destroy_cfg", "log_filter", "push_count",
     "dump_open", "rotate_cfg"}

\* C21: a thread that is at code which reads or writes the threshold, the
\* primary path, the counter or the registry holds s_g_cLoggerMutex, and a
\* step that changes one of the four is a step of the thread that holds it.
C21_ConfigUnderLock ==
    /\ [](\A t \in threads :
            (status = "running" /\ pc[t] \in ConfigLabels)
            => s_g_cLoggerMutex = t)
    /\ [][\A t \in threads :
            (pc'[t] # pc[t]
               /\ <<s_g_logLevel, s_g_filePath, s_g_logCount,
                    s_g_rotatedFilesQueue>>'
                  # <<s_g_logLevel, s_g_filePath, s_g_logCount,
                      s_g_rotatedFilesQueue>>)
            => s_g_cLoggerMutex = t]_vars

\* C21, witness: a thread counts its record with s_g_cLoggerMutex held
\* while the other thread, inside cJSONLoggerRotate, waits for that mutex.
C21_Witness ==
    \E t, u \in threads :
       /\ t # u
       /\ status = "running"
       /\ pc[t] = "push_count"
       /\ s_g_cLoggerMutex = t
       /\ pc[u] = "rotate_lock_cfg"

\* C22: a step of an init called on an Active logger leaves the tree with
\* its records, the counter, the registry and the files as they are, and
\* when the call returns the primary path is the path of the call and the
\* threshold is the level of the call, a level inside (START, END).
C22_ReinitKeepsTree ==
    [][\A t \in threads :
          (life = "Active" /\ loc[t].op = "init" /\ pc[t] # "idle"
             /\ Steps(t))
          => /\ UNCHANGED <<s_g_rootNode, s_g_logCount, s_g_rotatedFilesQueue,
                            files>>
             /\ status' = "running"
             /\ pc[t] = "init_path"
                => /\ pc'[t] = "idle"
                   /\ s_g_filePath' = loc[t].filePath
                   /\ (loc[t].logLevel > LEVEL_START
                         /\ loc[t].logLevel < LEVEL_END)
                      => s_g_logLevel' = loc[t].logLevel]_vars

\* C22, witness: init has returned with another path and another level on
\* a logger that holds a record, has counted it and has a rotated file in
\* its registry; the tree is as it was when init was called.
C22_Witness ==
    /\ threads = {1} /\ pc[1] = "idle" /\ loc[1].op = "init"
    /\ status = "running"
    /\ snap.filePath = "log.json"
    /\ s_g_filePath = "b.json"
    /\ s_g_logLevel = LEVEL_DEBUG
    /\ s_g_rootNode = snap.rootNode
    /\ RecordsIn(cJSON_Print(s_g_rootNode)) > 0
    /\ s_g_logCount > 0
    /\ s_g_rotatedFilesQueue.currentSize > 0

\* C23: the step that ends an init called on a Destroyed logger leaves an
\* empty root, counter 0, no registry, the path and the level of the call;
\* and whenever a dump has returned after that, the primary file is the
\* print of the tree and shows, node by node, the records logged since that
\* init.
C23_InitAfterDestroy ==
    /\ [][\A t \in threads :
            (life = "Destroyed" /\ loc[t].op = "init" /\ pc[t] = "init_path"
               /\ Steps(t))
            => /\ pc'[t] = "idle"
               /\ status' = "running"
               /\ s_g_rootNode' = <<CreateObject>>
               /\ s_g_logCount' = 0
               /\ s_g_rotatedFilesQueue' = NullQueue
               /\ s_g_filePath' = loc[t].filePath
               /\ s_g_logLevel' = loc[t].logLevel]_vars
    /\ []((DumpReturned /\ NoRotation)
            => /\ PrimaryContent(files, s_g_filePath)
                     = cJSON_Print(s_g_rootNode)
               /\ DocMatches(PrimaryContent(files, s_g_filePath)))

\* C23, witness: a dump has returned whose file shows a record of the tree
\* in use, and the first record of that tree was logged after a call had
\* logged to an earlier tree, one that destroy has deleted.
C23_Witness ==
    /\ DumpReturned
    /\ NoRotation
    /\ accepted # <<>>
    /\ accepted[1].rec.Time > 1
    /\ DocRecords(PrimaryContent(files, s_g_filePath), <<"x">>)
          = AcceptedAt(accepted, <<"x">>)
    /\ s_g_logCount = Len(accepted)

\* C24: a log call on an Active logger whose level passes the filter and
\* whose template has more than 255 bytes goes no further than the filter,
\* and none of its steps changes the tree, the counter, the registry, the
\* other globals or a file, or hands over a record.
C24_LongTemplateDropped ==
    [][\A t \in threads :
          (life = "Active" /\ loc[t].op = "log" /\ pc[t] # "idle" /\ Steps(t)
             /\ loc[t].logLevel > LEVEL_START
             /\ loc[t].logLevel < LEVEL_END
             /\ loc[t].logLevel <= s_g_logLevel
             /\ Len(loc[t].fmt) > 255)
          => /\ pc'[t] \in {"log_filter", "idle"}
             /\ pc[t] = "log_filter" => pc'[t] = "idle"
             /\ status' = "running"
             /\ UNCHANGED <<globals, files, accepted>>]_vars

\* C24, witness: a log call at the level of the threshold has returned
\* from a tree that holds a record of 254 bytes, and tree and files are as
\* they were when it was called; every call of this program is at that
\* level, so the call was dropped for its length.
C24_Witness ==
    /\ threads = {1} /\ pc[1] = "idle" /\ loc[1].op = "log"
    /\ status = "running"
    /\ life = "Active"
    /\ s_g_rootNode = snap.rootNode
    /\ files = snap.files
    /\ \E i \in 1..Len(accepted) :
          Len(accepted[i].rec.Log) = MAX_LOG_MSG_LEN - 2
    /\ RecordsIn(cJSON_Print(s_g_rootNode)) > 0

(***************************************************************************)
(* C25.  For any number of init calls, the handler registered by init      *)
(* performs destroy exactly once at process exit: when the process has     *)
(* exited after at least one init, exit has run cJSONLoggerDestroy once.   *)
(***************************************************************************)
C25_DestroyOnceAtExit ==
    (status = "exited" /\ atexit.registered > 0) => atexit.ran = 1

\* The records handed to PushLog since rotate last replaced the root, or
\* since the root was created.
SinceRotation == Len(accepted) - nrot.at

RegistryPaths(q) == {q.rotatedFiles[i] : i \in RegistryEntries(q)}

\* The path that went into the registry first among those it holds: time
\* stamps grow with every rotation of the one thread.
EarliestInserted(q) ==
    CHOOSE f \in RegistryPaths(q) : \A g \in RegistryPaths(q) : f.time <= g.time

\* A step deletes a file from disk.
Deletes == DOMAIN files \ DOMAIN files' # {}

(***************************************************************************)
(* C27.  Whenever a rotation evicts, the file deleted from disk is the one *)
(* whose path went into the registry earliest among the paths the registry *)
(* holds, that path is no longer in the registry afterwards, and the       *)
(* deletion comes before the new rotated file is written: after the step   *)
(* that deletes, the new file is open and empty, and the step that writes  *)
(* a rotated file deletes nothing.                                         *)
(***************************************************************************)
C27_EvictsOldestFirst ==
    /\ [][Deletes
          => LET old == EarliestInserted(s_g_rotatedFilesQueue)
             IN /\ \E t \in threads : pc[t] = "rotate_cfg" /\ pc'[t] # pc[t]
                /\ s_g_rotatedFilesQueue.currentSize = MAX_LOG_ROTATION_FILES
                /\ DOMAIN files \ DOMAIN files' = {old}
                /\ old \notin RegistryPaths(s_g_rotatedFilesQueue')
                /\ RegistryPaths(s_g_rotatedFilesQueue')
                      = RegistryPaths(s_g_rotatedFilesQueue) \ {old}
                /\ \A f \in DOMAIN files' \ DOMAIN files :
                      f.time # 0 /\ files'[f] = <<>>]_vars
    /\ [][\A t \in threads :
            (pc[t] = "rotate_cfg" /\ pc'[t] = "rotate_lock_root"
               /\ s_g_rotatedFilesQueue.currentSize = MAX_LOG_ROTATION_FILES)
            => Deletes]_vars
    /\ [][\A t \in threads :
            (pc[t] = "rotate_write" /\ pc'[t] # pc[t])
            => /\ ~Deletes
               /\ UNCHANGED s_g_rotatedFilesQueue]_vars

\* C27, witness: the registry has given up its second path while its first
\* slot holds a newer one; the evicted file is gone and the new rotated
\* file is open, still empty.
C27_Witness ==
    /\ status = "running"
    /\ pc[1] = "rotate_lock_root"
    /\ s_g_rotatedFilesQueue.head = 2
    /\ s_g_rotatedFilesQueue.currentSize = MAX_LOG_ROTATION_FILES - 1
    /\ s_g_rotatedFilesQueue.rotatedFiles[0] # NoFile
    /\ RegistryPaths(s_g_rotatedFilesQueue) \subseteq DOMAIN files
    /\ loc[1].file \in DOMAIN files
    /\ files[loc[1].file] = <<>>
    /\ loc[1].file \notin RegistryPaths(s_g_rotatedFilesQueue)

\* The template and the arguments of a call behind the header of the
\* macros.
UserTemplate(call) ==
    IF IsPrefix(HeaderPrefix, call.fmt)
    THEN Drop(call.fmt, Len(HeaderPrefix)) ELSE call.fmt

UserArgs(call) ==
    IF IsPrefix(HeaderPrefix, call.fmt) THEN Drop(call.args, 3) ELSE call.args

\* A template over literals, node directives and other '%' pairs: no '%'
\* is left without a byte behind it.
RECURSIVE PairsComplete(_)
PairsComplete(fmt) ==
    IF fmt = <<>> THEN TRUE
    ELSE IF Head(fmt) = "%"
         THEN Len(fmt) >= 2 /\ PairsComplete(Drop(fmt, 2))
         ELSE PairsComplete(Tail(fmt))

\* The records a call is to emit: one for every maximal fragment that is
\* not empty, in template order, with the path of the names of the
\* directives before it and the fragment formatted with the arguments that
\* are left.  frag is the fragment read so far.
RECURSIVE Fragments(_, _, _, _)
Fragments(fmt, args, path, frag) ==
    LET emit == IF frag = <<>> THEN <<>>
                ELSE <<[path |-> path, msg |-> FormatMsg(frag, args)]>>
        left == IF frag = <<>> \/ Len(args) < ArgsTaken(frag) THEN args
                ELSE Drop(args, ArgsTaken(frag))
    IN IF fmt = <<>> THEN emit
       ELSE IF Head(fmt) = "%" /\ Len(fmt) >= 2
            THEN IF fmt[2] = JNO_CHAR
                 THEN emit \o Fragments(Drop(fmt, 2), Tail(left),
                                        Append(path, Head(left)), <<>>)
                 ELSE Fragments(Drop(fmt, 2), args, path,
                                frag \o <<"%", fmt[2]>>)
            ELSE Fragments(Tail(fmt), args, path, Append(frag, Head(fmt)))

\* The messages among frs that belong to the node at path.
RECURSIVE MsgsFor(_, _)
MsgsFor(frs, path) ==
    IF frs = <<>> THEN <<>>
    ELSE (IF Head(frs).path = path THEN <<Head(frs).msg>> ELSE <<>>)
            \o MsgsFor(Tail(frs), path)

\* The messages a printed document shows under the node at path.
MsgsAt(doc, path) ==
    [i \in 1..Len(DocRecords(doc, path)) |-> DocRecords(doc, path)[i].Log]

\* The rotated files a step leaves on disk that were not there at the last
\* public call.
NewRotatedFiles == {f \in DOMAIN files' \ DOMAIN snap.files : f.time # 0}

\* The messages under the node at path after a step: those a rotation of
\* this call has moved to a file, then those of the tree.
MsgsAfter(path) ==
    (IF NewRotatedFiles = {} THEN <<>>
     ELSE MsgsAt(files'[CHOOSE f \in NewRotatedFiles : TRUE], path))
        \o MsgsAt(cJSON_Print(s_g_rootNode'), path)

(***************************************************************************)
(* C28, as claimed.  A log call at an accepted level on an Active logger,  *)
(* with a template over literals, node directives and other '%' pairs,     *)
(* emits one record for every maximal fragment that is not empty, in       *)
(* template order, each under the node that the names of the directives    *)
(* before it lead to from the root, and no other record: the call goes on  *)
(* to its return, and then every node shows the messages it showed before  *)
(* the call followed by the messages of its fragments.                     *)
(***************************************************************************)
C28_OneRecordPerFragment ==
    [][\A t \in threads :
          (/\ threads = {1} /\ loc[t].op = "log" /\ Steps(t)
           /\ life = "Active" /\ snap.rootNode # <<>>
           /\ loc[t].logLevel > LEVEL_START
           /\ loc[t].logLevel <= s_g_logLevel
           /\ Len(loc[t].call.fmt) < MAX_LOG_MSG_LEN
           /\ PairsComplete(loc[t].call.fmt))
          => /\ status' = "running"
             /\ pc'[t] = "idle"
                => LET frs == Fragments(UserTemplate(loc[t].call),
                                        UserArgs(loc[t].call), <<>>, <<>>)
                       before == cJSON_Print(snap.rootNode)
                   IN /\ Cardinality(NewRotatedFiles) <= 1
                      /\ \A path \in DocNodes(before)
                                      \cup {frs[i].path : i \in 1..Len(frs)}
                                      \cup DocNodes(cJSON_Print(s_g_rootNode')) :
                            MsgsAfter(path)
                               = MsgsAt(before, path) \o MsgsFor(frs, path)]_vars

\* The parser as a machine of two states, run from the start of fmt to the
\* first descent or to the end of the template: in ReadingLiteral a '%'
\* leads to PotentialDirective and any other byte joins the fragment; in
\* PotentialDirective the digit of the directive descends, and any other
\* byte joins the fragment behind a '%' and leads back to ReadingLiteral.
RECURSIVE Machine(_, _, _)
Machine(fmt, state, frag) ==
    IF fmt = <<>> THEN [descend |-> FALSE, frag |-> frag, rest |-> <<>>]
    ELSE IF state = "ReadingLiteral"
         THEN IF Head(fmt) = "%"
              THEN Machine(Tail(fmt), "PotentialDirective", frag)
              ELSE Machine(Tail(fmt), "ReadingLiteral", Append(frag, Head(fmt)))
         ELSE IF Head(fmt) = JNO_CHAR
              THEN [descend |-> TRUE, frag |-> frag, rest |-> Tail(fmt)]
              ELSE Machine(Tail(fmt), "ReadingLiteral",
                           frag \o <<"%", Head(fmt)>>)

\* The step of thread t goes on to createJsonObject, at once or behind the
\* record of the fragment.
Descends(t) ==
    \/ pc'[t] = "log_has"
    \/ pc'[t] = "push_lock_root" /\ stack'[t] # <<>>
          /\ Head(stack'[t]) = "log_has"

(***************************************************************************)
(* C29.  In the template parser a '%' followed by a byte other than the    *)
(* digit of the node directive puts both bytes into the fragment and goes  *)
(* back to literal reading, so that the byte behind such a pair is read as *)
(* a literal (in "%%1" the '1' causes no descent); a descent happens only  *)
(* for the digit read in PotentialDirective.  Every run of the parser, on  *)
(* a template in which every '%' has a byte behind it, ends where the      *)
(* machine of two states ends: the same fragment is formatted, the same    *)
(* rest of the template is left, and it descends exactly when the machine  *)
(* does.                                                                   *)
(***************************************************************************)
C29_PairsAreLiteral ==
    [][\A t \in threads :
          (pc[t] = "log_parse" /\ Steps(t) /\ PairsComplete(loc[t].fmt))
          => LET m == Machine(loc[t].fmt, "ReadingLiteral", <<>>)
             IN /\ status' = "running"
                /\ Descends(t) <=> m.descend
                /\ pc'[t] # "idle"
                     => /\ loc'[t].fmt = m.rest
                        /\ loc'[t].logMsg
                             = Vsnprintf(MAX_LOG_MSG_LEN - 1, m.frag,
                                         loc[t].args)
                /\ (pc'[t] = "push_lock_root") <=> (m.frag # <<>>)]_vars

\* C29, witness: the parser has read the template "%%1" to its end; the
\* fragment holds the pair and the '1', no node has been entered, and the
\* record of the fragment is on its way to the root.
C29_Witness ==
    /\ status = "running"
    /\ pc[1] = "push_lock_root"
    /\ loc[1].call.fmt = <<"%", "%", JNO_CHAR>>
    /\ loc[1].fmt = <<>>
    /\ loc[1].logMsg = <<"%", JNO_CHAR>>
    /\ loc[1].segs = <<>>
    /\ loc[1].node = 1
    /\ stack[1] = <<>>

\* The record a step of cJSONLoggerPushLog has handed over.
LastAccepted == accepted'[Len(accepted')]

\* The record of the step is the record of a fragment of the user template
\* of the call, formatted with the arguments behind the header: the header
\* is not in the message and its arguments name no node.
FromUserTemplate(call) ==
    LET frs == Fragments(UserTemplate(call), UserArgs(call), <<>>, <<>>)
    IN \E k \in 1..Len(frs) :
          /\ frs[k].path = LastAccepted.path
          /\ frs[k].msg = LastAccepted.rec.Log

(***************************************************************************)
(* C30, as claimed.  A record carries the FileName, FuncName and FileLine  *)
(* fields exactly when the template of its call begins with the header     *)
(* "$$%s$$%s$$%d$$": then the fields have the values of the first three    *)
(* arguments, which name no node and are not in the message, and the       *)
(* header is not in the message; without the header the three fields are   *)
(* absent.                                                                 *)
(***************************************************************************)
C30_HeaderFieldsIffPrefix ==
    [][\A t \in threads :
          (pc[t] = "push_append" /\ pc'[t] = "push_lock_cfg")
          => LET call == loc[t].call
                 rec == LastAccepted.rec
             IN /\ IF IsPrefix(HeaderPrefix, call.fmt)
                   THEN /\ rec.FileName # NULL /\ rec.FileName = call.args[1]
                        /\ rec.FuncName # NULL /\ rec.FuncName = call.args[2]
                        /\ rec.FileLine # NULL /\ rec.FileLine = call.args[3]
                   ELSE /\ rec.FileName = NULL
                        /\ rec.FuncName = NULL
                        /\ rec.FileLine = NULL
                /\ FromUserTemplate(call)]_vars

(***************************************************************************)
(* C30, amended.  The three fields come from the header only: when the     *)
(* template begins with the header, the first three arguments are bound to *)
(* them, name no node and are not in the message, and the header is not in *)
(* the message; the record then has FileName and FuncName unless the       *)
(* argument is the null pointer, and FileLine unless the argument is 0.    *)
(* Without the header the three fields are absent.                         *)
(***************************************************************************)
C30_HeaderFieldsFromPrefix ==
    [][\A t \in threads :
          (pc[t] = "push_append" /\ pc'[t] = "push_lock_cfg")
          => LET call == loc[t].call
                 rec == LastAccepted.rec
             IN /\ IF IsPrefix(HeaderPrefix, call.fmt)
                   THEN /\ rec.FileName = call.args[1]
                        /\ rec.FuncName = call.args[2]
                        /\ rec.FileLine = IF call.args[3] # "0"
                                          THEN call.args[3] ELSE NULL
                   ELSE /\ rec.FileName = NULL
                        /\ rec.FuncName = NULL
                        /\ rec.FileLine = NULL
                /\ FromUserTemplate(call)]_vars

\* C30, witness: a call of the macro has left a record with the three
\* fields under the node its fourth argument names, the message made with
\* the fifth; a call that wrote the header with line 0 has left a record
\* with a file name and no line.
C30_Witness ==
    /\ status = "running" /\ pc[1] = "idle"
    /\ \E i \in 1..Len(accepted) :
          /\ accepted[i].path = <<"x">>
          /\ accepted[i].rec.Log = <<"b", "v">>
          /\ accepted[i].rec.FileName = "test.c"
          /\ accepted[i].rec.FuncName = "main"
          /\ accepted[i].rec.FileLine = "7"
    /\ \E i \in 1..Len(accepted) :
          /\ accepted[i].path = <<>>
          /\ accepted[i].rec.FileName = "test.c"
          /\ accepted[i].rec.FuncName = "main"
          /\ accepted[i].rec.FileLine = NULL
          /\ accepted[i].rec.Log = <<"m">>
    /\ DocRecords(cJSON_Print(s_g_rootNode), <<"x">>) # <<>>

\* Thread t is inside a call of destroy that is not the first one: destroy
\* has returned before and no init has followed, or another thread is
\* inside destroy too.
SecondDestroy(t) ==
    /\ loc[t].op = "destroy" /\ pc[t] # "idle"
    /\ \/ life = "Destroyed"
       \/ \E u \in threads \ {t} : loc[u].op = "destroy" /\ pc[u] # "idle"

\* No thread is inside init.
NoInitRunning == \A u \in threads : loc[u].op = "init" => pc[u] = "idle"

(***************************************************************************)
(* C31, as claimed.  destroy is idempotent: a second destroy, after the    *)
(* first or together with it, goes on to its return, leaves the logger     *)
(* Destroyed (no tree, no path, no registry, counter 0, threshold at its   *)
(* start value), and a destroy that follows a destroy leaves the primary   *)
(* file as the first one wrote it.  The tree, the path and the registry    *)
(* are released once: what destroy releases is set to NULL under the same  *)
(* mutex.  No call of init runs at the same time.                          *)
(***************************************************************************)
C31_DestroyIdempotent ==
    [][\A t \in threads :
          (SecondDestroy(t) /\ NoInitRunning /\ pc'[t] # pc[t])
          => /\ status' = "running"
             /\ life = "Destroyed" => files' = files
             /\ (pc'[t] = "idle" /\ life = "Destroyed")
                => /\ s_g_rootNode' = <<>>
                   /\ s_g_filePath' = NULL
                   /\ s_g_rotatedFilesQueue' = NullQueue
                   /\ s_g_logCount' = 0
                   /\ s_g_logLevel' = LEVEL_START]_vars

(***************************************************************************)
(* C32.  Under fair scheduling every call returns in the end, whatever the *)
(* interleaving of init, destroy, log, dump, rotate and set_threshold      *)
(* calls of the threads, unless the process stops (at an assertion or at   *)
(* a bad memory access): no thread waits for a mutex for ever, a thread    *)
(* that is back at its caller holds no mutex, and a thread that waits for  *)
(* a mutex holds none.                                                     *)
(***************************************************************************)
C32_EveryCallReturns ==
    /\ \A t \in AllThreads :
          (pc[t] # "idle") ~> (pc[t] = "idle" \/ status # "running")
    /\ [](\A t \in AllThreads :
            (pc[t] = "idle" \/ pc[t] \in RootLockLabels \cup CfgLockLabels)
            => (s_g_rootNodeMutex # t /\ s_g_cLoggerMutex # t))

\* C32, witness: a thread waits for s_g_rootNodeMutex, which the other
\* thread holds inside a call of rotate.
C32_Witness ==
    /\ status = "running"
    /\ pc[1] \in RootLockLabels
    /\ s_g_rootNodeMutex = 2
    /\ pc[2] = "rotate_root"
    /\ loc[1].op = "log"

(***************************************************************************)
(* C33.  Every node that a log call descends from or appends a record to   *)
(* belongs to the tree in use at that moment: a log call that is about to  *)
(* search a node, to add a child to it or to append a record under it      *)
(* holds no pointer into a tree that rotate or destroy has deleted.        *)
(***************************************************************************)
C33_NodesAreLive ==
    \A t \in threads :
        (status = "running" /\ pc[t] \in {"log_has", "log_add", "push_append"})
        => ~loc[t].stale

(***************************************************************************)
(* C34.  For every template of at most 255 bytes the parser loop reads     *)
(* only the bytes up to and with the terminating NUL of the template, and  *)
(* stores at most 255 bytes and a terminator in logMsgFmt, also when the   *)
(* last byte of the template is '%'.                                       *)
(***************************************************************************)
\* The index in logMsgFmt, from 0, of the last byte that one run of the loop
\* and the terminator behind it store (lines 453, 471-472, 478 and 484).
LastIndexWritten(r) ==
    IF r.kind = "past" THEN Len(r.buf) + 1 ELSE Len(r.buf)

C34_ParserStaysInBounds ==
    [][\A t \in threads :
          (pc[t] = "log_parse" /\ (pc'[t] # pc[t] \/ status' # status))
          => LET r == ScanFragment(loc[t].fmt, loc[t].logMsgFmt)
             IN /\ r.kind # "past"
                /\ LastIndexWritten(r) <= MAX_LOG_MSG_LEN - 1]_vars

(***************************************************************************)
(* C35.  In single-threaded use, whenever a public function has returned,  *)
(* s_g_logCount equals the number of records in the tree in use; both are  *)
(* 0 when a rotation or a destroy has just returned.                       *)
(***************************************************************************)
C35_CounterMatchesTree ==
    (threads = {MainThread} /\ Quiescent)
    => /\ s_g_logCount = RecordsIn(cJSON_Print(s_g_rootNode))
       /\ loc[MainThread].op \in {"rotate", "destroy"} => s_g_logCount = 0

(***************************************************************************)
(* C36.  In every interleaving of init, destroy and dump calls, a dump     *)
(* (called by the user or by destroy) that has printed a tree and is about *)
(* to open the primary file finds s_g_filePath set: no thread sees a tree  *)
(* that has no primary path.                                               *)
(***************************************************************************)
C36_PrintedTreeHasPath ==
    \A t \in threads :
        (status = "running" /\ pc[t] = "dump_open" /\ loc[t].string # <<>>)
        => s_g_filePath # NULL

(***************************************************************************)
(* C37.  When dumps run together with log calls, a dump never replaces     *)
(* what is in the primary file by an older print of the tree: at the       *)
(* moment a dump opens the file and at the moment it writes, its string    *)
(* has at least the records of the file, so that the file holds the print  *)
(* taken last when all dumps have returned.                                *)
(***************************************************************************)
C37_DumpWritesNewest ==
    [][\A t \in threads :
          (pc[t] \in {"dump_open", "dump_write"} /\ pc'[t] # pc[t]
             /\ s_g_filePath # NULL)
          => RecordsIn(loc[t].string)
                >= RecordsIn(PrimaryContent(files, s_g_filePath))]_vars

(***************************************************************************)
(* C38.  When calls of init that ran at the same time have all returned,   *)
(* the level and the path in use are the level and the path of one and the *)
(* same call, never the level of one call with the path of another, and    *)
(* there is a root.                                                        *)
(***************************************************************************)
C38_InitPairsNotMixed ==
    (Quiescent /\ ncalls < MaxCallsMT)
    => /\ [logLevel |-> s_g_logLevel, filePath |-> s_g_filePath] \in InitCallsMT
       /\ s_g_rootNode # <<>>

(***************************************************************************)
(* C39.  Destroy releases every path the registry holds, wherever head is  *)
(* and whatever currentSize is: at the step of destroy that frees the      *)
(* registry, every slot that holds a path is a slot its loop frees, so     *)
(* that no path string stays allocated.                                    *)
(***************************************************************************)
\* Lines 378-383: the slots whose string the loop of cJSONLoggerDestroy
\* frees, i = 0 .. currentSize - 1.
DestroyFrees(q) ==
    {i \in Slots : i < q.currentSize /\ q.rotatedFiles[i] # NoFile}

C39_DestroyFreesRegistry ==
    [][\A t \in threads :
          (pc[t] = "destroy_cfg" /\ pc'[t] # pc[t])
          => RegistryEntries(s_g_rotatedFilesQueue)
                \subseteq DestroyFrees(s_g_rotatedFilesQueue)]_vars

====
